---- MODULE Spec2Model ----
(***************************************************************************)
(* Args++ (src/src/args.h, src/src/args.cpp): the command-aware argument   *)
(* parser.  A tree of ArgParser objects is configured by flag(), option(), *)
(* command(), setArgsRequired() and setOutput(), then parse() classifies   *)
(* the tokens of one stream, recursing into the parser of a matched        *)
(* command.  exitHelp / exitVersion / exitError end the process.           *)
(*                                                                         *)
(* Strings are TLA+ strings and are taken apart character by character,    *)
(* as the code does (compare, find, substr).  shared_ptr targets live in   *)
(* arenas (flagObjs, optionObjs, octxObjs, parsers) and a pointer is an    *)
(* index into its arena, 0 being nullptr.  parse(ArgStream&) is run one    *)
(* iteration of its while loop at a time; its recursion is the sequence    *)
(* stack of activation frames.  Every registration call of the model       *)
(* passes the default (empty) hint text.                                   *)
(***************************************************************************)
EXTENDS Integers, Sequences, FiniteSets, TLC

VARIABLES parsers, flagObjs, optionObjs, octxObjs, stream, stack, pc, term,
          calls, input, nparse

vars == <<parsers, flagObjs, optionObjs, octxObjs, stream, stack, pc, term,
          calls, input, nparse>>

(***************************************************************************)
(* std::string operations.                                                 *)
(***************************************************************************)
\* s[i], 0-based as in the code; s[size()] is the terminating '\0',
\* written here as the empty string
CharAt(s, i) == IF i < Len(s) THEN SubSeq(s, i + 1, i + 1) ELSE ""

\* s.substr(pos)
substr(s, pos) == SubSeq(s, pos + 1, Len(s))

\* s.substr(0, n)
substr0(s, n) == SubSeq(s, 1, n)

\* s.compare(0, 2, "--") == 0
startsWithDashDash(s) == Len(s) >= 2 /\ SubSeq(s, 1, 2) = "--"

\* isdigit(c)
isdigit(c) == c \in {"0", "1", "2", "3", "4", "5", "6", "7", "8", "9"}

\* isspace(c), as operator>> of the istringstream skips it
isspace(c) == c \in {" ", "\t", "\n"}

RECURSIVE findFrom(_, _, _)
findFrom(s, ch, i) ==
    IF i >= Len(s) THEN -1
    ELSE IF CharAt(s, i) = ch THEN i
    ELSE findFrom(s, ch, i + 1)

\* the last occurrence is found, as rfind does
RECURSIVE findLastFrom(_, _, _)
findLastFrom(s, ch, i) ==
    IF i < 0 THEN -1
    ELSE IF CharAt(s, i) = ch THEN i
    ELSE findLastFrom(s, ch, i - 1)

find_last(s, ch) == findLastFrom(s, ch, Len(s) - 1)

\* s.find(ch); string::npos is -1
find(s, ch) == findFrom(s, ch, 0)

\* the words that "while (stream >> alias)" reads from an alias list
RECURSIVE splitFrom(_, _, _, _)
splitFrom(s, i, word, acc) ==
    IF i >= Len(s)
    THEN IF word = "" THEN acc ELSE Append(acc, word)
    ELSE IF isspace(CharAt(s, i))
         THEN splitFrom(s, i + 1, "",
                        IF word = "" THEN acc ELSE Append(acc, word))
         ELSE splitFrom(s, i + 1, word \o CharAt(s, i), acc)

aliases(name) == splitFrom(name, 0, "", <<>>)

(***************************************************************************)
(* Maps, pointers, objects.                                                *)
(***************************************************************************)
\* an empty std::map
EmptyMap == [k \in {} |-> 0]

\* ArgParser::lookup: the mapped pointer, or nullptr
lookup(cnr, key) == IF key \in DOMAIN cnr THEN cnr[key] ELSE 0

\* a key already in the map keeps its pointer, as map::insert would
mapPut_keepFirst(cnr, key, ptr) ==
    [k \in (DOMAIN cnr) \cup {key} |-> IF k \in DOMAIN cnr THEN cnr[k] ELSE ptr]

\* cnr[key] = ptr
mapPut(cnr, key, ptr) ==
    [k \in (DOMAIN cnr) \cup {key} |-> IF k = key THEN ptr ELSE cnr[k]]

\* only the first alias of the list is bound
RECURSIVE mapPutAll_firstOnly(_, _, _)
mapPutAll_firstOnly(cnr, names, ptr) ==
    IF names = <<>> THEN cnr ELSE mapPut(cnr, Head(names), ptr)

\* cnr[alias] = ptr for every alias of the list, in reading order
RECURSIVE mapPutAll(_, _, _)
mapPutAll(cnr, names, ptr) ==
    IF names = <<>> THEN cnr
    ELSE mapPutAll(mapPut(cnr, Head(names), ptr), Tail(names), ptr)

\* SizeCheck modes
no_check == "no_check"
check_eq == "check_eq"
check_ge == "check_ge"

\* a parser constructed without a version gets "1.0"
NewParser_defaultVersion(helpmsg, ver) ==
    [ options      |-> EmptyMap,
      flags        |-> EmptyMap,
      commands     |-> EmptyMap,
      command_name |-> "",
      helptext     |-> helpmsg,
      version      |-> IF ver = "" THEN "1.0" ELSE ver,
      callback     |-> FALSE,
      octx         |-> 0,
      argcount     |-> [size |-> 0, mode |-> no_check],
      pos_args     |-> <<>>,
      declared     |-> FALSE ]

\* the ArgParser constructor.  declared is not a member: it keeps whether
\* setArgsRequired was called on the parser
NewParser(helpmsg, ver) ==
    [ options      |-> EmptyMap,
      flags        |-> EmptyMap,
      commands     |-> EmptyMap,
      command_name |-> "",
      helptext     |-> helpmsg,
      version      |-> ver,
      callback     |-> FALSE,
      octx         |-> 0,
      argcount     |-> [size |-> 0, mode |-> no_check],
      pos_args     |-> <<>>,
      declared     |-> FALSE ]

\* struct Flag, struct Option.  owner and name are not members: they keep
\* the parser and the alias list of the call that created the object
NewFlag(p, name) == [count |-> 0, owner |-> p, name |-> name]
NewOption(p, name, defVal) ==
    [values |-> <<>>, fallback |-> defVal, owner |-> p, name |-> name]

\* the base OutputContext writes to cout / cerr; one made by setOutput
\* hands the text to the closure, whose return value is the exit status
DefaultSink == [custom |-> FALSE, ok |-> 0, err |-> 1]
NewOutputContext(sink) == [sink |-> sink, buf |-> ""]

\* the process has not terminated
Running == [status |-> -1, via |-> "none", parser |-> 0, is_error |-> FALSE,
            dest |-> "none", text |-> ""]

Root == 1

(***************************************************************************)
(* Initial state: one root parser, constructed with its help text and      *)
(* version string, nothing registered, nothing parsed.                     *)
(***************************************************************************)
InitWith(helpmsg, ver) ==
    /\ parsers = <<NewParser(helpmsg, ver)>>
    /\ flagObjs = <<>>
    /\ optionObjs = <<>>
    /\ octxObjs = <<>>
    /\ stream = <<>>
    /\ stack = <<>>
    /\ pc = "ready"
    /\ term = Running
    /\ calls = <<>>
    /\ input = <<>>
    /\ nparse = 0

(***************************************************************************)
(* Registration.                                                           *)
(***************************************************************************)
\* ArgParser::flag
flag(p, name) ==
    /\ pc = "ready"
    /\ LET f == Len(flagObjs) + 1 IN
       /\ flagObjs' = Append(flagObjs, NewFlag(p, name))
       /\ parsers' = [parsers EXCEPT
                        ![p].flags = mapPutAll(@, aliases(name), f)]
    /\ UNCHANGED <<optionObjs, octxObjs, stream, stack, pc, term, calls,
                   input, nparse>>

\* ArgParser::option
option(p, name, fallback) ==
    /\ pc = "ready"
    /\ LET o == Len(optionObjs) + 1 IN
       /\ optionObjs' = Append(optionObjs, NewOption(p, name, fallback))
       /\ parsers' = [parsers EXCEPT
                        ![p].options = mapPutAll(@, aliases(name), o)]
    /\ UNCHANGED <<flagObjs, octxObjs, stream, stack, pc, term, calls,
                   input, nparse>>

\* the child gets an output context of its own
command_ownContext(p, name, helpmsg, callbackFn) ==
    /\ pc = "ready"
    /\ LET c    == Len(parsers) + 1
           make == parsers[p].octx = 0
           ctx  == IF make THEN Len(octxObjs) + 1 ELSE parsers[p].octx
           own  == IF make THEN Len(octxObjs) + 2 ELSE Len(octxObjs) + 1
           sub  == [NewParser(helpmsg, "") EXCEPT
                      !.callback = callbackFn, !.octx = own]
       IN
       /\ octxObjs' = IF make
                      THEN octxObjs \o <<NewOutputContext(DefaultSink),
                                         NewOutputContext(DefaultSink)>>
                      ELSE Append(octxObjs, NewOutputContext(DefaultSink))
       /\ parsers' = Append(
            [parsers EXCEPT
               ![p].octx = ctx,
               ![p].commands = mapPutAll(@, aliases(name), c),
               ![p].argcount = [size |-> 0, mode |-> check_eq]],
            sub)
    /\ UNCHANGED <<flagObjs, optionObjs, stream, stack, pc, term, calls,
                   input, nparse>>

\* ArgParser::command
command(p, name, helpmsg, callbackFn) ==
    /\ pc = "ready"
    /\ LET c    == Len(parsers) + 1
           make == parsers[p].octx = 0
           ctx  == IF make THEN Len(octxObjs) + 1 ELSE parsers[p].octx
           sub  == [NewParser(helpmsg, "") EXCEPT
                      !.callback = callbackFn, !.octx = ctx]
       IN
       /\ octxObjs' = IF make
                      THEN Append(octxObjs, NewOutputContext(DefaultSink))
                      ELSE octxObjs
       /\ parsers' = Append(
            [parsers EXCEPT
               ![p].octx = ctx,
               ![p].commands = mapPutAll(@, aliases(name), c),
               ![p].argcount = [size |-> 0, mode |-> check_eq]],
            sub)
    /\ UNCHANGED <<flagObjs, optionObjs, stream, stack, pc, term, calls,
                   input, nparse>>

\* the call is ignored on a parser that has commands
setArgsRequired_notAfterCommand(p, count, accept_more) ==
    /\ pc = "ready"
    /\ parsers' = IF DOMAIN parsers[p].commands # {}
                  THEN [parsers EXCEPT ![p].declared = TRUE]
                  ELSE [parsers EXCEPT
                          ![p].argcount =
                             [size |-> count,
                              mode |-> IF accept_more THEN check_ge
                                       ELSE check_eq],
                          ![p].declared = TRUE]
    /\ UNCHANGED <<flagObjs, optionObjs, octxObjs, stream, stack, pc, term,
                   calls, input, nparse>>

\* ArgParser::setArgsRequired
setArgsRequired(p, count, accept_more) ==
    /\ pc = "ready"
    /\ parsers' = [parsers EXCEPT
                     ![p].argcount =
                        [size |-> count,
                         mode |-> IF accept_more THEN check_ge ELSE check_eq],
                     ![p].declared = TRUE]
    /\ UNCHANGED <<flagObjs, optionObjs, octxObjs, stream, stack, pc, term,
                   calls, input, nparse>>

\* ArgParser::setOutput; the closure c returns c.err for an error text and
\* c.ok for any other text
setOutput(p, c) ==
    /\ pc = "ready"
    /\ IF parsers[p].octx = 0
       THEN /\ octxObjs' = Append(octxObjs,
                  NewOutputContext([custom |-> TRUE, ok |-> c.ok,
                                    err |-> c.err]))
            /\ parsers' = [parsers EXCEPT ![p].octx = Len(octxObjs) + 1]
       ELSE UNCHANGED <<octxObjs, parsers>>
    /\ UNCHANGED <<flagObjs, optionObjs, stream, stack, pc, term, calls,
                   input, nparse>>

\* the mode no_check is not looked at
isValid_alwaysChecked(argcount, number) ==
    \/ (argcount.mode # check_ge /\ number = argcount.size)
    \/ (argcount.mode = check_ge /\ number >= argcount.size)

\* ArgParser::SizeCheck::isValid
isValid(argcount, number) ==
    \/ argcount.mode = no_check
    \/ (argcount.mode = check_eq /\ number = argcount.size)
    \/ (argcount.mode = check_ge /\ number >= argcount.size)

(***************************************************************************)
(* Queries.                                                                *)
(***************************************************************************)
\* the options are looked up before the flags
count_optionsFirst(p, name) ==
    LET f == lookup(parsers[p].flags, name)
        o == lookup(parsers[p].options, name)
    IN IF o # 0 THEN Len(optionObjs[o].values)
       ELSE IF f # 0 THEN flagObjs[f].count
       ELSE 0

\* ArgParser::count
count(p, name) ==
    LET f == lookup(parsers[p].flags, name)
        o == lookup(parsers[p].options, name)
    IN IF f # 0 THEN flagObjs[f].count
       ELSE IF o # 0 THEN Len(optionObjs[o].values)
       ELSE 0

\* ArgParser::found
found(p, name) == count(p, name) > 0

\* ArgParser::value
value(p, name) ==
    LET o == lookup(parsers[p].options, name)
    IN IF o # 0
       THEN IF optionObjs[o].values # <<>>
            THEN optionObjs[o].values[Len(optionObjs[o].values)]
            ELSE optionObjs[o].fallback
       ELSE ""

\* ArgParser::values
values(p, name) ==
    LET o == lookup(parsers[p].options, name)
    IN IF o # 0 THEN optionObjs[o].values ELSE <<>>

\* an index past the end gives the last argument
arg_clamped(p, index) ==
    IF index < Len(parsers[p].pos_args)
    THEN parsers[p].pos_args[index + 1]
    ELSE IF parsers[p].pos_args # <<>>
    THEN parsers[p].pos_args[Len(parsers[p].pos_args)]
    ELSE ""

\* ArgParser::arg
arg(p, index) ==
    IF index < Len(parsers[p].pos_args)
    THEN parsers[p].pos_args[index + 1]
    ELSE ""

\* ArgParser::args
args(p) == parsers[p].pos_args

\* ArgParser::commandFound
commandFound(p) == parsers[p].command_name # ""

\* ArgParser::commandName
commandName(p) == parsers[p].command_name

\* the parser asked is returned, also when it matched a command
commandParser_self(p) == p

\* ArgParser::commandParser
commandParser(p) ==
    LET c == lookup(parsers[p].commands, parsers[p].command_name)
    IN IF c # 0 THEN c ELSE p

(***************************************************************************)
(* Output and termination.                                                 *)
(***************************************************************************)
\* the characters of the built-in hint labels, in ASCII order
AsciiOrder == " ,-ehilnoprsv"

\* std::string operator> on two labels
RECURSIVE strGreaterFrom(_, _, _)
strGreaterFrom(a, b, i) ==
    IF i >= Len(a) THEN FALSE
    ELSE IF i >= Len(b) THEN TRUE
    ELSE IF CharAt(a, i) = CharAt(b, i) THEN strGreaterFrom(a, b, i + 1)
    ELSE find(AsciiOrder, CharAt(a, i)) > find(AsciiOrder, CharAt(b, i))

strGreater(a, b) == strGreaterFrom(a, b, 0)

\* n blanks: string(n, ' ')
RECURSIVE blanks(_)
blanks(n) == IF n <= 0 THEN "" ELSE " " \o blanks(n - 1)

\* the built-in entries that exitHelp adds: "v"/"version" when a version
\* string is declared, "h"/"help" when a help text is, each unless a flag
\* or an option of that name is registered; in the key order of the map
builtIns(q) ==
    LET free(n) == lookup(parsers[q].flags, n) = 0
                   /\ lookup(parsers[q].options, n) = 0
        hlp == IF parsers[q].helptext # ""
               THEN SelectSeq(<<"h", "help">>, free) ELSE <<>>
        ver == IF parsers[q].version # ""
               THEN SelectSeq(<<"v", "version">>, free) ELSE <<>>
    IN [i \in 1..Len(hlp) |-> [key |-> hlp[i], msg |-> "Show this help text"]]
       \o
       [i \in 1..Len(ver) |-> [key |-> ver[i], msg |-> "Show program version"]]

\* ArgParser::collectHints over the entries of a flag map; the registered
\* flags, options and commands carry the empty hint and add nothing
RECURSIVE collectHints(_, _)
collectHints(entries, hints) ==
    IF entries = <<>> THEN hints
    ELSE
      LET e    == Head(entries)
          name == (IF Len(e.key) = 1 THEN "-" ELSE "--") \o e.key
          same == {i \in 1..Len(hints) : hints[i].msg = e.msg}
          gt   == {i \in 1..Len(hints) : strGreater(hints[i].label, name)}
          at   == IF gt = {} THEN Len(hints) + 1
                  ELSE CHOOSE i \in gt : \A j \in gt : i <= j
          next == IF same = {}
                  THEN SubSeq(hints, 1, at - 1)
                       \o <<[msg |-> e.msg, label |-> name]>>
                       \o SubSeq(hints, at, Len(hints))
                  ELSE LET i == CHOOSE i \in same : TRUE
                       IN [hints EXCEPT ![i].label = @ \o ", " \o name]
      IN collectHints(Tail(entries), next)

\* ArgParser::printHints for one-line hint texts
RECURSIVE printItems(_, _)
printItems(width, hints) ==
    IF hints = <<>> THEN ""
    ELSE LET item == Head(hints) IN
         "  " \o item.label \o blanks(width - Len(item.label))
              \o item.msg \o "\n" \o printItems(width, Tail(hints))

printHints(tag, width, hints) ==
    IF hints = <<>> THEN "" ELSE tag \o printItems(width, hints)

\* the longest label
RECURSIVE maxWidth(_)
maxWidth(hints) ==
    IF hints = <<>> THEN 0
    ELSE LET w == maxWidth(Tail(hints)) IN
         IF Len(Head(hints).label) > w THEN Len(Head(hints).label) ELSE w

\* the text ArgParser::exitHelp writes to the buffer
helpOutput(q) ==
    LET hints == collectHints(builtIns(q), <<>>) IN
    parsers[q].helptext \o "\n"
      \o printHints("\nOptions:\n", maxWidth(hints) + 2, hints) \o "\n"

\* the text ArgParser::exitVersion writes to the buffer
versionOutput(q) == parsers[q].version \o "\n"

\* the default context always returns 0
flush_alwaysZero(ctx, text, is_error, via, q) ==
    [ status   |-> IF ctx.sink.custom
                   THEN (IF is_error THEN ctx.sink.err ELSE ctx.sink.ok)
                   ELSE 0,
      via      |-> via,
      parser   |-> q,
      is_error |-> is_error,
      dest     |-> IF ctx.sink.custom THEN "closure"
                   ELSE IF is_error THEN "cerr" ELSE "cout",
      text     |-> text ]

\* OutputContext::flush and the flush of a context made by setOutput,
\* followed by exit(): the termination record of the process.  via names
\* the exit function and q the parser it was called on.
flush(ctx, text, is_error, via, q) ==
    [ status   |-> IF ctx.sink.custom
                   THEN (IF is_error THEN ctx.sink.err ELSE ctx.sink.ok)
                   ELSE (IF is_error THEN 1 ELSE 0),
      via      |-> via,
      parser   |-> q,
      is_error |-> is_error,
      dest     |-> IF ctx.sink.custom THEN "closure"
                   ELSE IF is_error THEN "cerr" ELSE "cout",
      text     |-> text ]

(***************************************************************************)
(* Parsing.  The option parsers work on the part of the state they can     *)
(* change: m.flagObjs, m.optionObjs and m.stream.  m.exit names the exit   *)
(* function they ended in ("none" when they returned), m.on the parser it  *)
(* was called on and m.msg the text written to the buffer before it.       *)
(***************************************************************************)
proceed(fo, oo, st) ==
    [flagObjs |-> fo, optionObjs |-> oo, stream |-> st,
     exit |-> "none", on |-> 0, msg |-> ""]

\* the text is written but exitError() is not called
error_continues(m, p, msg) == [m EXCEPT !.msg = msg]

\* octx->buf << msg; exitError()
error(m, p, msg) == [m EXCEPT !.exit = "error", !.on = p, !.msg = msg]

\* the stream is taken for exhausted once the word "x" is next, so a
\* parse can return with tokens left
hasNext_stopAtWord(st) == st # <<>> /\ Head(st) # "x"

\* ArgStream::hasNext
hasNext(st) == st # <<>>

\* the value is put in front of the earlier ones
push_back_atFront(oo, o, v) == [oo EXCEPT ![o].values = <<v>> \o @]

\* option->values.push_back(v)
push_back(oo, o, v) == [oo EXCEPT ![o].values = Append(@, v)]

\* the value is stored but the token stays in the stream
takeValue_keepToken(m, o) ==
    [m EXCEPT !.optionObjs = push_back(@, o, Head(m.stream))]

\* option->values.push_back(stream.next())
takeValue(m, o) ==
    [m EXCEPT !.optionObjs = push_back(@, o, Head(m.stream)),
              !.stream = Tail(@)]

\* ArgParser::parseEqualsOption
parseEqualsOption(p, prefix, name, val, m) ==
    LET o == lookup(parsers[p].options, name) IN
    IF o # 0
    THEN IF val # ""
         THEN [m EXCEPT !.optionObjs = push_back(@, o, val)]
         ELSE error(m, p, "Error: missing value for " \o prefix \o name
                          \o ".\n")
    ELSE error(m, p, "Error: " \o prefix \o name
                     \o " is not a recognised option.\n")

\* the built-in names help and version are tried before the registered ones
parseLongOption_helpFirst(p, a, m) ==
    LET f == lookup(parsers[p].flags, a)
        o == lookup(parsers[p].options, a)
    IN
    IF a = "help" /\ parsers[p].helptext # ""
    THEN [m EXCEPT !.exit = "help", !.on = p]
    ELSE IF a = "version" /\ parsers[p].version # ""
    THEN [m EXCEPT !.exit = "version", !.on = p]
    ELSE IF f # 0
    THEN [m EXCEPT !.flagObjs[f].count = @ + 1]
    ELSE IF o # 0 /\ hasNext(m.stream)
    THEN takeValue(m, o)
    ELSE error(m, p, "Error: --" \o a
                     \o " is not a recognised flag or option.\n")

\* ArgParser::parseLongOption
parseLongOption(p, a, m) ==
    LET pos == find(a, "=")
        f   == lookup(parsers[p].flags, a)
        o   == lookup(parsers[p].options, a)
    IN
    IF pos # -1
    THEN parseEqualsOption(p, "--", substr0(a, pos), substr(a, pos + 1), m)
    ELSE IF f # 0
    THEN [m EXCEPT !.flagObjs[f].count = @ + 1]
    ELSE IF o # 0
    THEN IF hasNext(m.stream)
         THEN takeValue(m, o)
         ELSE error(m, p, "Error: missing argument for --" \o a \o ".\n")
    ELSE IF a = "help" /\ parsers[p].helptext # ""
    THEN [m EXCEPT !.exit = "help", !.on = p]
    ELSE IF a = "version" /\ parsers[p].version # ""
    THEN [m EXCEPT !.exit = "version", !.on = p]
    ELSE error(m, p, "Error: --" \o a
                     \o " is not a recognised flag or option.\n")

\* a token that begins with a dash is not taken as a value
RECURSIVE shortLoop_noDashedValue(_, _, _, _)
shortLoop_noDashedValue(p, a, i, m) ==
    IF i >= Len(a) THEN m
    ELSE
      LET c == CharAt(a, i)
          f == lookup(parsers[p].flags, c)
          o == lookup(parsers[p].options, c)
      IN
      IF f # 0
      THEN shortLoop_noDashedValue(p, a, i + 1,
                                   [m EXCEPT !.flagObjs[f].count = @ + 1])
      ELSE IF o # 0
      THEN IF hasNext(m.stream) /\ CharAt(Head(m.stream), 0) # "-"
           THEN shortLoop_noDashedValue(p, a, i + 1, takeValue(m, o))
           ELSE error(m, p, "Error: missing argument for -" \o c \o ".\n")
      ELSE IF c = "h" /\ parsers[p].helptext # ""
      THEN [m EXCEPT !.exit = "help", !.on = p]
      ELSE IF c = "v" /\ parsers[p].version # ""
      THEN [m EXCEPT !.exit = "version", !.on = p]
      ELSE error(m, p, "Error: -" \o c
                       \o " is not a recognised flag or option.\n")

\* the for loop of ArgParser::parseShortOption, from character i on
RECURSIVE shortLoop(_, _, _, _)
shortLoop(p, a, i, m) ==
    IF i >= Len(a) THEN m
    ELSE
      LET c == CharAt(a, i)
          f == lookup(parsers[p].flags, c)
          o == lookup(parsers[p].options, c)
      IN
      IF f # 0
      THEN shortLoop(p, a, i + 1, [m EXCEPT !.flagObjs[f].count = @ + 1])
      ELSE IF o # 0
      THEN IF hasNext(m.stream)
           THEN shortLoop(p, a, i + 1, takeValue(m, o))
           ELSE error(m, p,
                  IF Len(a) > 1
                  THEN "Error: missing argument for '" \o c \o "' in -"
                       \o a \o ".\n"
                  ELSE "Error: missing argument for -" \o c \o ".\n")
      ELSE IF c = "h" /\ parsers[p].helptext # ""
      THEN [m EXCEPT !.exit = "help", !.on = p]
      ELSE IF c = "v" /\ parsers[p].version # ""
      THEN [m EXCEPT !.exit = "version", !.on = p]
      ELSE error(m, p,
             IF Len(a) > 1
             THEN "Error: '" \o c \o "' in -" \o a
                  \o " is not a recognised flag or option.\n"
             ELSE "Error: -" \o c \o " is not a recognised flag or option.\n")

\* the characters before the "=" are resolved one by one
parseShortOption_perChar(p, a, m) ==
    LET pos == find(a, "=") IN
    IF pos # -1
    THEN shortLoop(p, substr0(a, pos), 0,
                   [m EXCEPT !.stream = <<substr(a, pos + 1)>> \o @])
    ELSE shortLoop(p, a, 0, m)

\* ArgParser::parseShortOption
parseShortOption(p, a, m) ==
    LET pos == find(a, "=") IN
    IF pos # -1
    THEN parseEqualsOption(p, "-", substr0(a, pos), substr(a, pos + 1), m)
    ELSE shortLoop(p, a, 0, m)

\* every exit flushes as an error
terminate_asError(p, m) ==
    LET c1   == parsers[p].octx
        obj1 == [octxObjs EXCEPT ![c1].buf = @ \o m.msg]
        c2   == parsers[m.on].octx
        more == IF m.exit = "help" THEN helpOutput(m.on)
                ELSE IF m.exit = "version" THEN versionOutput(m.on)
                ELSE ""
        obj2 == [obj1 EXCEPT ![c2].buf = @ \o more]
    IN /\ octxObjs' = obj2
       /\ term' = flush(obj2[c2], obj2[c2].buf, TRUE, m.exit, m.on)
       /\ pc' = "exit"

\* ArgParser::exitHelp, exitVersion, exitError called on parser m.on after
\* m.msg was written to the buffer of parser p: the buffer is completed,
\* flushed, and the process exits
terminate(p, m) ==
    LET c1   == parsers[p].octx
        obj1 == [octxObjs EXCEPT ![c1].buf = @ \o m.msg]
        c2   == parsers[m.on].octx
        more == IF m.exit = "help" THEN helpOutput(m.on)
                ELSE IF m.exit = "version" THEN versionOutput(m.on)
                ELSE ""
        obj2 == [obj1 EXCEPT ![c2].buf = @ \o more]
    IN /\ octxObjs' = obj2
       /\ term' = flush(obj2[c2], obj2[c2].buf, m.exit = "error", m.exit, m.on)
       /\ pc' = "exit"

\* the state after one piece of parse(ArgStream&): the outcome m of the
\* option parsers, the parsers ps and the activation frames stk
install(p, m, ps, stk) ==
    /\ flagObjs' = m.flagObjs
    /\ optionObjs' = m.optionObjs
    /\ stream' = m.stream
    /\ parsers' = ps
    /\ stack' = stk
    /\ IF m.exit = "none"
       THEN UNCHANGED <<octxObjs, term, pc>>
       ELSE terminate(p, m)

\* the locals of an activation of parse(ArgStream&)
Frame(p) == [self |-> p, is_first_arg |-> TRUE, arg |-> "",
             command_parser |-> 0]

top == stack[Len(stack)]

\* stk with its innermost frame replaced
setTop(stk, fr) == [stk EXCEPT ![Len(stk)] = fr]

\* the flag is left as it was
notFirst_forgotten(fr) == fr

\* is_first_arg = false
notFirst(fr) == [fr EXCEPT !.is_first_arg = FALSE]

\* a command is matched but its parser is not entered
enterCommand_noRecursion(stk, a, cp) ==
    setTop(stk, [stk[Len(stk)] EXCEPT !.arg = a, !.command_parser = cp])

\* command_parser->parse(stream): the activation of the parser cp of the
\* command typed as a starts; the caller keeps a and cp for the callback
enterCommand(stk, a, cp) ==
    Append(setTop(stk, [stk[Len(stk)] EXCEPT
                          !.arg = a, !.command_parser = cp]),
           Frame(cp))

\* the list is started again with a
addArg_restart(ps, p, a) == [ps EXCEPT ![p].pos_args = <<a>>]

\* pos_args.push_back(a) in parser p
addArg(ps, p, a) == [ps EXCEPT ![p].pos_args = Append(@, a)]

\* after "--" only the tokens that do not look like options are kept
addArgs_dropDashed(ps, p, st) ==
    [ps EXCEPT ![p].pos_args =
       @ \o SelectSeq(st, LAMBDA t : CharAt(t, 0) # "-")]

\* while (stream.hasNext()) pos_args.push_back(stream.next()): the parsers
RECURSIVE addArgs(_, _, _)
addArgs(ps, p, st) ==
    IF hasNext(st) THEN addArgs(addArg(ps, p, Head(st)), p, Tail(st))
    ELSE ps

\* the tokens after "--" stay in the stream
drained_kept(st) == st

\* while (stream.hasNext()) stream.next(): the stream that is left
RECURSIVE drained(_)
drained(st) == IF hasNext(st) THEN drained(Tail(st)) ELSE st

\* a parse call starts from nothing: the counters, the values and the
\* positional list of the root are cleared
enter_reset(st) ==
    LET make == parsers[Root].octx = 0 IN
    /\ pc' = "parse"
    /\ stream' = st
    /\ stack' = <<Frame(Root)>>
    /\ octxObjs' = IF make
                   THEN Append(octxObjs, NewOutputContext(DefaultSink))
                   ELSE octxObjs
    /\ parsers' = [parsers EXCEPT
                     ![Root].octx = IF make THEN Len(octxObjs) + 1 ELSE @,
                     ![Root].pos_args = <<>>]
    /\ flagObjs' = [f \in DOMAIN flagObjs |->
                      [flagObjs[f] EXCEPT !.count = 0]]
    /\ optionObjs' = [o \in DOMAIN optionObjs |->
                        [optionObjs[o] EXCEPT !.values = <<>>]]
    /\ UNCHANGED <<term, calls>>

\* the entry of parse(ArgStream&) on the root parser with the stream st:
\* is_first_arg = true, and the output context is created if there is none
enter(st) ==
    LET make == parsers[Root].octx = 0 IN
    /\ pc' = "parse"
    /\ stream' = st
    /\ stack' = <<Frame(Root)>>
    /\ octxObjs' = IF make
                   THEN Append(octxObjs, NewOutputContext(DefaultSink))
                   ELSE octxObjs
    /\ parsers' = IF make
                  THEN [parsers EXCEPT ![Root].octx = Len(octxObjs) + 1]
                  ELSE parsers
    /\ UNCHANGED <<flagObjs, optionObjs, term, calls>>

\* ArgParser::parse(vector<string> const&) on the root parser, up to the
\* first test of the while loop
parse_vector(argv) ==
    /\ pc = "ready"
    /\ input' = argv
    /\ nparse' = nparse + 1
    /\ enter(argv)

\* ArgParser::parse(int argc, char** argv) on the root parser, argc being
\* Len(argv): the program name is skipped; with argc <= 1 it returns at once
parse_argv(argv) ==
    /\ pc = "ready"
    /\ nparse' = nparse + 1
    /\ IF Len(argv) > 1
       THEN /\ input' = Tail(argv)
            /\ enter(Tail(argv))
       ELSE /\ input' = <<>>
            /\ UNCHANGED <<parsers, flagObjs, optionObjs, octxObjs, stream,
                           stack, pc, term, calls>>

\* the help text shown is that of the parser that read "help"
helpCommand_ownHelp(p, m) ==
    IF hasNext(m.stream)
    THEN LET name == Head(m.stream)
             hp   == lookup(parsers[p].commands, name)
             m2   == [m EXCEPT !.stream = Tail(@)]
         IN IF hp = 0
            THEN error(m2, p, "Error: '" \o name
                              \o "' is not a recognised command.\n")
            ELSE [m2 EXCEPT !.exit = "help", !.on = p]
    ELSE error(m, p, "Error: the help command requires an argument.\n")

\* the automatic help command of parse(ArgStream&), read by parser p
helpCommand(p, m) ==
    IF hasNext(m.stream)
    THEN LET name == Head(m.stream)
             hp   == lookup(parsers[p].commands, name)
             m2   == [m EXCEPT !.stream = Tail(@)]
         IN IF hp = 0
            THEN error(m2, p, "Error: '" \o name
                              \o "' is not a recognised command.\n")
            ELSE [m2 EXCEPT !.exit = "help", !.on = hp]
    ELSE error(m, p, "Error: the help command requires an argument.\n")

\* the callback is handed the calling parser instead of the command's
invoke_onSelf(cs, fr) ==
    IF parsers[fr.command_parser].callback
    THEN Append(cs, [cmd_name |-> fr.arg, cmd_parser |-> fr.self])
    ELSE cs

\* if (command_parser->callback != nullptr)
\*     command_parser->callback(arg, *command_parser);
\* in the activation fr; cs records the calls made so far
invoke(cs, fr) ==
    IF parsers[fr.command_parser].callback
    THEN Append(cs, [cmd_name |-> fr.arg, cmd_parser |-> fr.command_parser])
    ELSE cs

\* one iteration of the while loop of parse(ArgStream&) in the innermost
\* activation; a matched command enters the parse of its parser
parse_loop ==
    /\ pc = "parse"
    /\ hasNext(stream)
    /\ LET fr   == top
           p    == fr.self
           a    == Head(stream)
           m    == proceed(flagObjs, optionObjs, Tail(stream))
           cp   == IF fr.is_first_arg
                   THEN lookup(parsers[p].commands, a) ELSE 0
       IN
       IF a = "--"
       THEN install(p, [m EXCEPT !.stream = drained(@)],
                    addArgs(parsers, p, m.stream), stack)
       ELSE IF startsWithDashDash(a)
       THEN install(p, parseLongOption(p, substr(a, 2), m), parsers, stack)
       ELSE IF CharAt(a, 0) = "-"
       THEN IF Len(a) = 1 \/ isdigit(CharAt(a, 1))
            THEN install(p, m, addArg(parsers, p, a), stack)
            ELSE install(p, parseShortOption(p, substr(a, 1), m),
                         parsers, stack)
       ELSE IF cp # 0
       THEN install(p, m, [parsers EXCEPT ![p].command_name = a],
                    enterCommand(stack, a, cp))
       ELSE IF fr.is_first_arg /\ a = "help" /\ DOMAIN parsers[p].commands # {}
       THEN install(p, helpCommand(p, m), parsers, stack)
       ELSE install(p, m, addArg(parsers, p, a),
                    setTop(stack, notFirst(fr)))
    /\ UNCHANGED <<calls, input, nparse>>

\* the end of parse(ArgStream&) in the innermost activation: the stream is
\* exhausted, the positional count is checked, and control returns to the
\* caller of parse or to the activation of the parent, which invokes the
\* callback of the command and goes on with its loop
parse_return ==
    /\ pc = "parse"
    /\ ~hasNext(stream)
    /\ LET p == top.self
           m == proceed(flagObjs, optionObjs, stream)
       IN
       IF ~isValid(parsers[p].argcount, Len(parsers[p].pos_args))
       THEN /\ install(p, error(m, p, "Error: invalid number of arguments.\n"),
                       parsers, stack)
            /\ UNCHANGED calls
       ELSE IF Len(stack) = 1
       THEN /\ pc' = "ready"
            /\ stack' = <<>>
            /\ UNCHANGED <<parsers, flagObjs, optionObjs, octxObjs, stream,
                           term, calls>>
       ELSE LET up == stack[Len(stack) - 1] IN
            /\ stack' = setTop(SubSeq(stack, 1, Len(stack) - 1),
                               [up EXCEPT !.arg = "", !.command_parser = 0])
            /\ calls' = invoke(calls, up)
            /\ UNCHANGED <<parsers, flagObjs, optionObjs, octxObjs, stream,
                           term, pc>>
    /\ UNCHANGED <<input, nparse>>

(***************************************************************************)
(* The calls a program makes, as the specifications below combine them.    *)
(* A program configures its parsers before it parses, and parses once.     *)
(***************************************************************************)
\* all sequences over S of length 0..n
SeqsUpTo(S, n) == UNION {[1..k -> S] : k \in 0..n}

\* no alias of the list name is a key of the map cnr
Unused(cnr, name) ==
    \A i \in 1..Len(aliases(name)) : aliases(name)[i] \notin DOMAIN cnr

\* a flag() call on any parser, with an alias list not yet used there
RegisterFlag(Names) ==
    /\ nparse = 0
    /\ \E p \in 1..Len(parsers), n \in Names :
         Unused(parsers[p].flags, n) /\ flag(p, n)

\* an option() call on any parser, with an alias list not yet used there
RegisterOption(Names, Fallbacks) ==
    /\ nparse = 0
    /\ \E p \in 1..Len(parsers), n \in Names, d \in Fallbacks :
         Unused(parsers[p].options, n) /\ option(p, n, d)

\* a command() call on one of the parsers Parents, with an alias list not
\* yet used there
RegisterCommand(Parents, Names, Callbacks) ==
    /\ nparse = 0
    /\ \E p \in Parents \cap (1..Len(parsers)), n \in Names,
          cb \in Callbacks :
         Unused(parsers[p].commands, n)
         /\ command(p, n, "Usage: example " \o n \o "...", cb)

\* parse(argv) with one of the vectors Ins
ParseVector(Ins) == nparse = 0 /\ \E argv \in Ins : parse_vector(argv)

\* parse(argc, argv) as main() calls it: the program name, then one of
\* the vectors Ins; or argc = 0
ParseArgv(Ins) ==
    /\ nparse = 0
    /\ \E argv \in {<<>>} \cup {<<"example">> \o i : i \in Ins} :
         parse_argv(argv)

(***************************************************************************)
(* Specification Spec: the program of the command example.  The root       *)
(* parser declares help text and version; the command "boo" may be         *)
(* registered on it, with or without a callback; flag "foo f" and option   *)
(* "bar b" may be registered on either parser.                             *)
(***************************************************************************)
\* longest argument vector
MaxArgs == 3

Tokens == {"boo", "help", "-f", "-b", "x", "-", "-1", "--"}

Inputs == SeqsUpTo(Tokens, MaxArgs)

Init == InitWith("Usage: example...", "1.0")

Next ==
    \/ RegisterCommand({Root}, {"boo"}, BOOLEAN)
    \/ RegisterFlag({"foo f"})
    \/ RegisterOption({"bar b"}, {"default"})
    \/ ParseVector(Inputs)
    \/ ParseArgv(Inputs)
    \/ parse_loop
    \/ parse_return

Spec == Init /\ [][Next]_vars

(***************************************************************************)
(* Vocabulary of the properties.                                           *)
(***************************************************************************)
\* a token that is not of option form: it does not begin with a dash
IsWord(a) == CharAt(a, 0) # "-"

\* parser p has captured no word so far
NoWordYet(p) ==
    \A i \in 1..Len(parsers[p].pos_args) : ~IsWord(parsers[p].pos_args[i])

\* the Flag and Option objects registered in parser p
FlagsOf(p) == {parsers[p].flags[k] : k \in DOMAIN parsers[p].flags}
OptionsOf(p) == {parsers[p].options[k] : k \in DOMAIN parsers[p].options}

\* a step is taken inside parse and reads a token
Reading == pc = "parse" /\ stream # <<>>

\* parse has returned to its caller
Returned == pc = "ready" /\ nparse > 0

\* the parser registered in p under the alias a (0: none)
Child(p, a) == lookup(parsers[p].commands, a)

(***************************************************************************)
(* C1: command dispatch.  When the first word a scope reads is a           *)
(* registered command alias, the scope's commandName() becomes that token  *)
(* and the parse of the command's parser is entered; while that parse is   *)
(* active a step changes only flags and options registered in the          *)
(* innermost scope and leaves the positional lists, flags and options of   *)
(* every enclosing scope alone; and after parse(["boo", "-f"]) with flag   *)
(* "foo f" registered in the parser of "boo", commandName() is "boo", the  *)
(* child has found("foo") and the root has no positional argument.         *)
(***************************************************************************)
C1_Dispatch ==
    (Reading /\ IsWord(Head(stream)) /\ NoWordYet(top.self)
       /\ Child(top.self, Head(stream)) # 0)
    => /\ pc' = "parse"
       /\ parsers'[top.self].command_name = Head(stream)
       /\ Len(stack') = Len(stack) + 1
       /\ stack'[Len(stack')].self = Child(top.self, Head(stream))
       /\ stream' = Tail(stream)
       /\ parsers'[top.self].pos_args = parsers[top.self].pos_args

C1_Later ==
    pc = "parse" =>
      /\ \A f \in 1..Len(flagObjs) :
           flagObjs'[f] # flagObjs[f] => f \in FlagsOf(top.self)
      /\ \A o \in 1..Len(optionObjs) :
           optionObjs'[o] # optionObjs[o] => o \in OptionsOf(top.self)
      /\ \A i \in 1..(Len(stack) - 1) :
           LET q == stack[i].self IN
           /\ parsers'[q].pos_args = parsers[q].pos_args
           /\ \A f \in FlagsOf(q) : flagObjs'[f] = flagObjs[f]
           /\ \A o \in OptionsOf(q) : optionObjs'[o] = optionObjs[o]

C1_Example ==
    (Returned /\ input = <<"boo", "-f">> /\ Child(Root, "boo") # 0
       /\ lookup(parsers[Child(Root, "boo")].flags, "foo") # 0
       /\ lookup(parsers[Child(Root, "boo")].flags, "f")
            = lookup(parsers[Child(Root, "boo")].flags, "foo"))
    => /\ commandName(Root) = "boo"
       /\ found(commandParser(Root), "foo")
       /\ commandParser(Root) = Child(Root, "boo")
       /\ args(Root) = <<>>

C1_CommandDispatch == [][C1_Dispatch /\ C1_Later /\ C1_Example']_vars

\* parse(["boo", "-f"]) has returned: "boo" was dispatched and its parser
\* counted the flag
C1_Witness ==
    /\ Returned
    /\ input = <<"boo", "-f">>
    /\ commandName(Root) = "boo"
    /\ found(commandParser(Root), "foo")
    /\ commandParser(Root) # Root
    /\ args(Root) = <<>>

(***************************************************************************)
(* C4: once a scope reads the token "--", the rest of the stream is        *)
(* appended, unchanged and in order, to the positional arguments of that   *)
(* scope, whatever the tokens look like; that step and every later step of *)
(* the parse leave all flag counters and option values as they are; and    *)
(* after the first token of parse(["--", t1..tn]) is read, args() of the   *)
(* root is [t1..tn].                                                       *)
(***************************************************************************)
C4_Step ==
    (Reading /\ Head(stream) = "--")
    => /\ parsers'[top.self].pos_args
            = parsers[top.self].pos_args \o Tail(stream)
       /\ stream' = <<>>
       /\ flagObjs' = flagObjs
       /\ optionObjs' = optionObjs
       /\ stack' = stack
       /\ \A q \in 1..Len(parsers) :
            /\ parsers'[q].command_name = parsers[q].command_name
            /\ q # top.self => parsers'[q].pos_args = parsers[q].pos_args

C4_After ==
    (pc = "parse" /\ stream = <<>>)
    => /\ flagObjs' = flagObjs
       /\ optionObjs' = optionObjs
       /\ stream' = <<>>
       /\ \A q \in 1..Len(parsers) : parsers'[q].pos_args = parsers[q].pos_args

C4_Whole ==
    (nparse = 1 /\ input # <<>> /\ Head(input) = "--"
       /\ ~(pc = "parse" /\ stream = input))
    => /\ args(Root) = Tail(input)
       /\ \A f \in 1..Len(flagObjs) : flagObjs[f].count = 0
       /\ \A o \in 1..Len(optionObjs) : optionObjs[o].values = <<>>
       /\ \A q \in 1..Len(parsers) : ~commandFound(q)

C4_DoubleDash == [][C4_Step /\ C4_After /\ C4_Whole']_vars

\* parse(["boo", "--", "-f"]) has returned: the parser of "boo" read "--"
\* and took "-f" as a positional argument although f is a flag there
C4_Witness ==
    /\ Returned
    /\ input = <<"boo", "--", "-f">>
    /\ commandName(Root) = "boo"
    /\ args(commandParser(Root)) = <<"-f">>
    /\ lookup(parsers[commandParser(Root)].flags, "f") # 0
    /\ count(commandParser(Root), "f") = 0

(***************************************************************************)
(* C8 as claimed: a token equal to a registered command alias that the     *)
(* root scope reads after any other token is captured as a positional      *)
(* argument and is not dispatched.                                         *)
(***************************************************************************)
C8_Original ==
    [][ (Reading /\ Len(stack) = 1 /\ Len(stream) < Len(input)
           /\ Child(Root, Head(stream)) # 0)
        => /\ stack' = stack
           /\ parsers'[Root].pos_args
                = Append(parsers[Root].pos_args, Head(stream))
           /\ parsers'[Root].command_name = parsers[Root].command_name ]_vars

(***************************************************************************)
(* C8 amended: command and automatic-help recognition applies to the first *)
(* word of a scope (the first token that does not begin with a dash): a    *)
(* registered command alias, or the word help, that comes after a word     *)
(* captured in the same scope is captured as a positional argument and is  *)
(* not dispatched; one that comes after flags, options with their values   *)
(* and "-" / dash-digit positionals only is still dispatched.              *)
(***************************************************************************)
C8_AfterWord ==
    (Reading /\ ~NoWordYet(top.self)
       /\ (Child(top.self, Head(stream)) # 0 \/ Head(stream) = "help"))
    => /\ pc' = "parse"
       /\ stack' = stack
       /\ stream' = Tail(stream)
       /\ parsers'[top.self].pos_args
            = Append(parsers[top.self].pos_args, Head(stream))
       /\ parsers'[top.self].command_name = parsers[top.self].command_name

C8_AfterOptions ==
    (Reading /\ Len(stack) = 1 /\ Len(stream) < Len(input)
       /\ NoWordYet(Root) /\ Child(Root, Head(stream)) # 0)
    => /\ Len(stack') = 2
       /\ stack'[2].self = Child(Root, Head(stream))
       /\ parsers'[Root].command_name = Head(stream)
       /\ parsers'[Root].pos_args = parsers[Root].pos_args

C8_FirstWordOnly == [][C8_AfterWord /\ C8_AfterOptions]_vars

\* parse(["x", "boo"]) with the command "boo" registered: "boo" came after
\* the word "x" and is the second positional argument of the root
C8_Witness ==
    /\ nparse = 1
    /\ input = <<"x", "boo">>
    /\ Child(Root, "boo") # 0
    /\ args(Root) = <<"x", "boo">>
    /\ ~commandFound(Root)

(***************************************************************************)
(* Specification TreeSpec: nested commands.  The commands "boo" (with a    *)
(* callback) and "zoo" (without one) may be registered on any parser of    *)
(* the tree, also below one another, and the flag "foo f" on any parser.   *)
(***************************************************************************)
\* parsers in the command tree, the root included
MaxParsers == 3
\* longest argument vector
MaxTreeArgs == 3

TreeTokens == {"boo", "zoo", "x", "-f"}

TreeInputs == SeqsUpTo(TreeTokens, MaxTreeArgs)

TreeRegisterBoo ==
    /\ Len(parsers) < MaxParsers
    /\ RegisterCommand(1..Len(parsers), {"boo"}, {TRUE})

TreeRegisterZoo ==
    /\ Len(parsers) < MaxParsers
    /\ RegisterCommand(1..Len(parsers), {"zoo"}, {FALSE})

TreeNext ==
    \/ TreeRegisterBoo
    \/ TreeRegisterZoo
    \/ RegisterFlag({"foo f"})
    \/ ParseVector(TreeInputs)
    \/ ParseArgv(TreeInputs)
    \/ parse_loop
    \/ parse_return

TreeSpec == Init /\ [][TreeNext]_vars

(***************************************************************************)
(* C10: the rest of the stream belongs to the matched command.  When the   *)
(* parse of a command's parser returns to the parse of its parent the      *)
(* stream is empty; a scope that has matched a command reads no further    *)
(* token and so matches at most one command; and the parsers that matched  *)
(* a command form one path that starts at the root, each being the parser  *)
(* of the command its predecessor matched.                                 *)
(***************************************************************************)
C10_Return ==
    (pc = "parse" /\ Len(stack') < Len(stack) /\ stack' # <<>>)
    => stream = <<>> /\ stream' = <<>>

C10_Once ==
    (pc = "parse" /\ Len(stack') > Len(stack)) => ~commandFound(top.self)

C10_NoFurther ==
    (pc = "parse" /\ commandFound(top.self)) => stream = <<>>

C10_Path ==
    \A p \in 1..Len(parsers) :
      commandFound(p) =>
        \/ p = Root
        \/ \E q \in 1..Len(parsers) :
             q # p /\ commandFound(q) /\ commandParser(q) = p

C10_RestBelongsToCommand ==
    [][C10_Return /\ C10_Once /\ C10_NoFurther' /\ C10_Path']_vars

\* parse(["boo", "zoo", "x"]) has returned: the root matched "boo", the
\* parser of "boo" matched "zoo", whose parser captured "x"
C10_Witness ==
    /\ Returned
    /\ input = <<"boo", "zoo", "x">>
    /\ commandName(Root) = "boo"
    /\ commandName(commandParser(Root)) = "zoo"
    /\ args(commandParser(commandParser(Root))) = <<"x">>
    /\ Cardinality({p \in 1..Len(parsers) : commandFound(p)}) = 2

(***************************************************************************)
(* Specification OptSpec: flags and options of one parser.  flag() is      *)
(* called with "foo f" and with "a f", in any order and also repeatedly,   *)
(* so that the alias f can be rebound; the option "bar b" has the fallback *)
(* "default".                                                              *)
(***************************************************************************)
\* flag() calls
MaxFlags == 2
\* longest argument vector
MaxOptArgs == 3

OptTokens == {"-f", "--foo", "-a", "-af", "--bar=x", "--bar", "--b", "-b",
              "y", "-fb", "-bf", "-bb"}

OptInputs == SeqsUpTo(OptTokens, MaxOptArgs)

OptRegisterFlag ==
    /\ nparse = 0
    /\ Len(flagObjs) < MaxFlags
    /\ \E n \in {"foo f", "a f"} : flag(Root, n)

OptNext ==
    \/ OptRegisterFlag
    \/ RegisterOption({"bar b"}, {"default"})
    \/ ParseVector(OptInputs)
    \/ ParseArgv(OptInputs)
    \/ parse_loop
    \/ parse_return

OptSpec == Init /\ [][OptNext]_vars

(***************************************************************************)
(* Vocabulary of the properties about flags and options.                   *)
(***************************************************************************)
\* the aliases that the alias lists of the specifications name
AliasesOf(name) ==
    CASE name = "foo f" -> {"foo", "f"}
      [] name = "a f"   -> {"a", "f"}
      [] name = "bar b" -> {"bar", "b"}
      [] name = "c b"   -> {"c", "b"}
      [] name = "boo co" -> {"boo", "co"}
      [] name = "zoo co" -> {"zoo", "co"}
      [] OTHER          -> {name}

\* no later flag() call on the same parser has rebound an alias of flag f
FlagIntact(f) ==
    \A g \in (f + 1)..Len(flagObjs) :
      flagObjs[g].owner = flagObjs[f].owner
      => AliasesOf(flagObjs[g].name) \cap AliasesOf(flagObjs[f].name) = {}

\* no later option() call on the same parser has rebound an alias of
\* option o, and no alias of o is the name of a flag of that parser
OptionIntact(o) ==
    /\ \A g \in (o + 1)..Len(optionObjs) :
         optionObjs[g].owner = optionObjs[o].owner
         => AliasesOf(optionObjs[g].name) \cap AliasesOf(optionObjs[o].name)
              = {}
    /\ AliasesOf(optionObjs[o].name)
         \cap DOMAIN parsers[optionObjs[o].owner].flags = {}

\* token t is a short-form cluster: a dash, then characters other than a
\* dash or a digit first, and no "="
IsCluster(t) ==
    /\ Len(t) >= 2
    /\ SubSeq(t, 1, 1) = "-"
    /\ ~isdigit(SubSeq(t, 2, 2))
    /\ SubSeq(t, 2, 2) # "-"
    /\ \A i \in 1..Len(t) : SubSeq(t, i, i) # "="

\* the characters of a cluster after its dash
ClusterChars(t) == [i \in 1..(Len(t) - 1) |-> SubSeq(t, i + 1, i + 1)]

\* how often token t names one of the aliases A as a flag
OccursIn(t, A) ==
    IF \E a \in A : t = "--" \o a THEN 1
    ELSE IF IsCluster(t)
    THEN Cardinality({i \in 1..Len(ClusterChars(t)) : ClusterChars(t)[i] \in A})
    ELSE 0

RECURSIVE Occurrences(_, _)
Occurrences(in, A) ==
    IF in = <<>> THEN 0
    ELSE OccursIn(Head(in), A) + Occurrences(Tail(in), A)

(***************************************************************************)
(* C3: the aliases of one flag() call share one counter.  For a flag       *)
(* registered with several aliases, none of them rebound by a later call,  *)
(* count and found agree for every pair of its aliases; and after a parse  *)
(* that returned with flag tokens only, the count is the number of         *)
(* occurrences through any of the aliases: "--alias", "-a", or a character *)
(* of a cluster.                                                           *)
(***************************************************************************)
C3_Shared ==
    \A f \in 1..Len(flagObjs) :
      FlagIntact(f) =>
        \A a, b \in AliasesOf(flagObjs[f].name) :
          /\ count(flagObjs[f].owner, a) = count(flagObjs[f].owner, b)
          /\ found(flagObjs[f].owner, a) = found(flagObjs[f].owner, b)

C3_Adds ==
    (Returned /\ args(Root) = <<>>
       /\ \A o \in 1..Len(optionObjs) : optionObjs[o].values = <<>>)
    => \A f \in 1..Len(flagObjs) :
         FlagIntact(f) =>
           \A a \in AliasesOf(flagObjs[f].name) :
             count(Root, a) = Occurrences(input, AliasesOf(flagObjs[f].name))

C3_SharedCounter == C3_Shared /\ C3_Adds

\* flag("a f") then flag("foo f"), parse(["-af", "--foo"]): the flag
\* "foo f" was given once as a cluster character, once in long form
C3_Witness ==
    /\ Returned
    /\ input = <<"-af", "--foo">>
    /\ Len(flagObjs) = 2
    /\ flagObjs[2].name = "foo f"
    /\ count(Root, "foo") = 2
    /\ count(Root, "f") = 2
    /\ found(Root, "f")

(***************************************************************************)
(* C2: option values.  A sequence of tokens supplies values to one option  *)
(* through the forms --name=v, --name v and -n v, n a one-character alias. *)
(* Supplied reads such a sequence and gives the values in supply order.    *)
(* After a parse of such a sequence, values() through every alias is that  *)
(* list, value() is its last element, or the registered fallback when the  *)
(* list is empty; and the parse has not exited.                            *)
(***************************************************************************)
\* the values that the "=" form carries in the tokens of OptSpec
EqValues == {"x"}

\* the fallback that OptSpec registers with an alias list
FallbackOf(name) == IF name = "bar b" THEN "default" ELSE ""

RECURSIVE Supplied(_, _)
Supplied(in, A) ==
    IF in = <<>> THEN [ok |-> TRUE, vals |-> <<>>]
    ELSE LET t == Head(in) IN
      IF \E a \in A, v \in EqValues : t = "--" \o a \o "=" \o v
      THEN LET v == CHOOSE w \in EqValues :
                      \E a \in A : t = "--" \o a \o "=" \o w
               r == Supplied(Tail(in), A)
           IN [ok |-> r.ok, vals |-> <<v>> \o r.vals]
      ELSE IF /\ Len(in) >= 2
              /\ \E a \in A : \/ t = "--" \o a
                              \/ Len(a) = 1 /\ t = "-" \o a
      THEN LET r == Supplied(SubSeq(in, 3, Len(in)), A)
           IN [ok |-> r.ok, vals |-> <<in[2]>> \o r.vals]
      ELSE [ok |-> FALSE, vals |-> <<>>]

C2_Values ==
    \A o \in 1..Len(optionObjs) :
      LET A == AliasesOf(optionObjs[o].name)
          r == Supplied(input, A)
      IN (nparse > 0 /\ OptionIntact(o) /\ r.ok)
         => /\ pc # "exit"
            /\ Returned =>
                 \A a \in A :
                   /\ values(Root, a) = r.vals
                   /\ value(Root, a)
                        = IF r.vals = <<>>
                          THEN FallbackOf(optionObjs[o].name)
                          ELSE r.vals[Len(r.vals)]

C2_OptionValues == C2_Values

\* option("bar b", "default"), parse(["--bar=x", "-b", "y"])
C2_Witness ==
    /\ Returned
    /\ input = <<"--bar=x", "-b", "y">>
    /\ values(Root, "bar") = <<"x", "y">>
    /\ values(Root, "b") = <<"x", "y">>
    /\ value(Root, "bar") = "y"

(***************************************************************************)
(* C9: short-form clusters.  The statement that an option character must   *)
(* be the only one of its cluster and its last character reads: a cluster  *)
(* in which an option character is followed by further characters is       *)
(* rejected.                                                               *)
(***************************************************************************)
\* what the character c names in parser p
KindOf(p, c) ==
    IF c \in DOMAIN parsers[p].flags THEN "flag"
    ELSE IF c \in DOMAIN parsers[p].options THEN "option"
    ELSE "none"

\* the option characters of a cluster, in order
OptionChars(p, cs) == SelectSeq(cs, LAMBDA c : KindOf(p, c) = "option")

\* the tokens that the option characters ocs hand to option object o when
\* they take the tokens of rest one after the other
RECURSIVE Taken(_, _, _, _)
Taken(p, ocs, rest, o) ==
    IF ocs = <<>> \/ rest = <<>> THEN <<>>
    ELSE (IF parsers[p].options[Head(ocs)] = o THEN <<Head(rest)>> ELSE <<>>)
         \o Taken(p, Tail(ocs), Tail(rest), o)

C9_Original ==
    [][ (Reading /\ IsCluster(Head(stream))
           /\ \E i \in 1..(Len(ClusterChars(Head(stream))) - 1) :
                KindOf(top.self, ClusterChars(Head(stream))[i]) = "option")
        => pc' = "exit" /\ term'.is_error ]_vars

(***************************************************************************)
(* C9, as the code behaves: in a cluster of registered characters every    *)
(* flag character increments its flag once ("-ab" has the effect of "-a"   *)
(* "-b"), and every option character, wherever it stands and however many  *)
(* there are, takes one token of the stream after the cluster, the j-th    *)
(* option character the j-th token.  The cluster is rejected with an error *)
(* only when the stream holds fewer tokens than the cluster has option     *)
(* characters.                                                             *)
(***************************************************************************)
C9_Cluster ==
    (Reading /\ IsCluster(Head(stream))
       /\ \A i \in 1..Len(ClusterChars(Head(stream))) :
            KindOf(top.self, ClusterChars(Head(stream))[i]) # "none")
    => LET p    == top.self
           cs   == ClusterChars(Head(stream))
           ocs  == OptionChars(p, cs)
           rest == Tail(stream)
       IN IF Len(ocs) <= Len(rest)
          THEN /\ pc' = "parse"
               /\ stream' = SubSeq(rest, Len(ocs) + 1, Len(rest))
               /\ \A f \in 1..Len(flagObjs) :
                    flagObjs'[f].count = flagObjs[f].count
                      + Cardinality({i \in 1..Len(cs) :
                                       /\ KindOf(p, cs[i]) = "flag"
                                       /\ parsers[p].flags[cs[i]] = f})
               /\ \A o \in 1..Len(optionObjs) :
                    optionObjs'[o].values
                      = optionObjs[o].values \o Taken(p, ocs, rest, o)
               /\ parsers' = parsers
          ELSE /\ pc' = "exit"
               /\ term'.via = "error"
               /\ term'.is_error

C9_ClusterEffect == [][C9_Cluster]_vars

\* flag("foo f"), option("bar b", "default"), parse(["-bf", "y"]): the
\* option character is followed by a flag character and is accepted
C9_Witness ==
    /\ Returned
    /\ input = <<"-bf", "y">>
    /\ values(Root, "b") = <<"y">>
    /\ count(Root, "f") = 1
    /\ args(Root) = <<>>

(***************************************************************************)
(* Specification ArgsSpec: required numbers of positional arguments.  The  *)
(* command "boo" may be registered on the root, and setArgsRequired is     *)
(* called on either parser, before or after command().                     *)
(***************************************************************************)
\* largest required number
MaxRequired == 2
\* longest argument vector
MaxPosArgs == 3

ArgsTokens == {"boo", "x", "-1", "--"}

ArgsInputs == SeqsUpTo(ArgsTokens, MaxPosArgs)

ArgsRequire ==
    /\ nparse = 0
    /\ \E p \in 1..Len(parsers), n \in 0..MaxRequired, more \in BOOLEAN :
         setArgsRequired(p, n, more)

ArgsNext ==
    \/ RegisterCommand({Root}, {"boo"}, {FALSE})
    \/ ArgsRequire
    \/ ParseVector(ArgsInputs)
    \/ ParseArgv(ArgsInputs)
    \/ parse_loop
    \/ parse_return

ArgsSpec == Init /\ [][ArgsNext]_vars

\* the positional arguments that scope p captured meet its constraint
Satisfied(p) ==
    LET c == parsers[p].argcount
        n == Len(parsers[p].pos_args)
    IN /\ c.mode = check_eq => n = c.size
       /\ c.mode = check_ge => n >= c.size

\* the scopes that took part in the parse: the root and the parser of the
\* command it matched
Scopes ==
    {Root} \cup (IF commandFound(Root) THEN {commandParser(Root)} ELSE {})

(***************************************************************************)
(* C5: required positional count.  When a parse has returned normally,     *)
(* every scope that took part captured exactly n positional arguments if   *)
(* it requires exactly n, and at least n if it requires n or more; and the *)
(* exit with the text "invalid number of arguments" is taken only by a     *)
(* scope whose arguments do not meet its constraint.                       *)
(***************************************************************************)
C5_RequiredCount ==
    /\ Returned => \A p \in Scopes : Satisfied(p)
    /\ (pc = "exit" /\ term.text = "Error: invalid number of arguments.\n")
         => term.via = "error" /\ ~Satisfied(term.parser)

(***************************************************************************)
(* Specification HelpSpec: the built-in names help, h, version and v.  The *)
(* root parser is constructed with or without help text and version; the   *)
(* names may be registered as flags or options; the output closure of      *)
(* example3 may be installed.                                              *)
(***************************************************************************)
\* longest argument vector
MaxHelpArgs == 2

HelpTokens == {"--help", "-h", "--version", "-v", "-x", "-1", "y"}

HelpInputs == SeqsUpTo(HelpTokens, MaxHelpArgs)

HelpInit ==
    \E helpmsg \in {"", "Usage: example..."}, ver \in {"", "1.0"} :
      InitWith(helpmsg, ver)

\* the alias lists that the flag() and option() calls use
HelpFlagNames == {"help h", "v"}
HelpOptionNames == {"h", "version v"}
HelpFallbacks == {"default"}

HelpSetOutput == nparse = 0 /\ setOutput(Root, [ok |-> 0, err |-> 42])

HelpNext ==
    \/ RegisterFlag(HelpFlagNames)
    \/ RegisterOption(HelpOptionNames, HelpFallbacks)
    \/ HelpSetOutput
    \/ ParseVector(HelpInputs)
    \/ ParseArgv(HelpInputs)
    \/ parse_loop
    \/ parse_return

HelpSpec == HelpInit /\ [][HelpNext]_vars

\* the name that a shortcut token carries, the text that arms it and the
\* exit it leads to
ShortcutName(t) ==
    CASE t = "--help" -> "help" [] t = "-h" -> "h"
      [] t = "--version" -> "version" [] t = "-v" -> "v"

ShortcutText(p, t) ==
    IF t \in {"--help", "-h"} THEN parsers[p].helptext ELSE parsers[p].version

ShortcutExit(t) == IF t \in {"--help", "-h"} THEN "help" ELSE "version"

(***************************************************************************)
(* C6: help and version shortcuts.  When a scope reads "--help" or "-h"    *)
(* and has a help text, it terminates through exitHelp if the name is not  *)
(* registered in the scope; if the name is a flag of the scope the flag is *)
(* incremented, if it is an option the next token becomes its value (the   *)
(* missing-argument error when there is none), and no help exit happens.   *)
(* The same for "--version" and "-v" with the version string.              *)
(***************************************************************************)
C6_Step ==
    (Reading /\ Head(stream) \in {"--help", "-h", "--version", "-v"})
    => LET p    == top.self
           t    == Head(stream)
           n    == ShortcutName(t)
           rest == Tail(stream)
       IN CASE KindOf(p, n) = "flag" ->
                 /\ pc' = "parse"
                 /\ flagObjs' = [flagObjs EXCEPT
                                   ![parsers[p].flags[n]].count = @ + 1]
                 /\ optionObjs' = optionObjs
                 /\ stream' = rest
            [] KindOf(p, n) = "option" ->
                 IF rest # <<>>
                 THEN /\ pc' = "parse"
                      /\ optionObjs' = [optionObjs EXCEPT
                                          ![parsers[p].options[n]].values
                                             = Append(@, Head(rest))]
                      /\ flagObjs' = flagObjs
                      /\ stream' = Tail(rest)
                 ELSE pc' = "exit" /\ term'.via = "error"
            [] OTHER ->
                 ShortcutText(p, t) # ""
                 => /\ pc' = "exit"
                    /\ term'.via = ShortcutExit(t)
                    /\ term'.parser = p
                    /\ ~term'.is_error

C6_Shortcuts == [][C6_Step]_vars

\* flag("help h") on a parser with help text, parse(["-h", "--help"]):
\* both tokens count the flag and the parse returns
C6_Witness ==
    /\ Returned
    /\ input = <<"-h", "--help">>
    /\ parsers[Root].helptext # ""
    /\ count(Root, "help") = 2
    /\ count(Root, "h") = 2

(***************************************************************************)
(* C7: a short-form token "-x" whose character is not registered in the    *)
(* scope exits with an error status and a text that names x.  As stated,   *)
(* for every character x.                                                  *)
(***************************************************************************)
\* the stream's next token is "-" and the one character c, not registered
\* in the reading scope
UnknownShort(c) ==
    /\ Reading
    /\ Head(stream) = "-" \o c
    /\ KindOf(top.self, c) = "none"

\* the step ends the process through exitError with the text naming c
RejectsShort(c) ==
    /\ pc' = "exit"
    /\ term'.via = "error"
    /\ term'.is_error
    /\ term'.status # 0
    /\ term'.text = "Error: -" \o c \o " is not a recognised flag or option.\n"
    /\ stream' = Tail(stream)
    /\ flagObjs' = flagObjs
    /\ optionObjs' = optionObjs

ShortChars == {"h", "v", "x", "1"}

C7_Original ==
    [][ \A c \in ShortChars : UnknownShort(c) => RejectsShort(c) ]_vars

(***************************************************************************)
(* C7, as the code behaves: the same for a character x that is not a digit *)
(* (such a token is a positional argument), not h in a scope with a help   *)
(* text and not v in a scope with a version string (these are the help and *)
(* version shortcuts); and after the exit no step is taken, so no later    *)
(* token is processed.                                                     *)
(***************************************************************************)
C7_Step ==
    /\ pc # "exit"
    /\ \A c \in ShortChars :
         (/\ UnknownShort(c)
          /\ ~isdigit(c)
          /\ ~(c = "h" /\ parsers[top.self].helptext # "")
          /\ ~(c = "v" /\ parsers[top.self].version # ""))
         => RejectsShort(c)

C7_UnknownShort == [][C7_Step]_vars

\* parse(["-x", "y"]) with the closure of example3: status 42, and "y"
\* is left in the stream
C7_Witness ==
    /\ pc = "exit"
    /\ input = <<"-x", "y">>
    /\ term.status = 42
    /\ term.text = "Error: -x is not a recognised flag or option.\n"
    /\ stream = <<"y">>

(***************************************************************************)
(* C11: callback ordering.  The callback of a command is invoked in the    *)
(* step in which the parse of the command's parser returns to the parse of *)
(* its parent, and in no other step: the command's own positional count    *)
(* has been accepted, the parent is still active (its own count check is   *)
(* still to come), and the callback receives the alias as typed and the    *)
(* command's parser.  No callback is invoked in a step that ends the       *)
(* process.  When parse has returned, the callbacks invoked are those of   *)
(* the matched commands that have one, once each, the innermost first.     *)
(***************************************************************************)
\* the parse of a command's parser returns to the parse of its parent
ChildReturns ==
    /\ pc = "parse" /\ pc' = "parse"
    /\ Len(stack) >= 2
    /\ Len(stack') = Len(stack) - 1

\* the callbacks due after the parse of p: those of the commands matched
\* below p first, then the one of the command p matched
RECURSIVE CallsDue(_)
CallsDue(p) ==
    IF commandFound(p)
    THEN LET c == commandParser(p) IN
         CallsDue(c)
         \o (IF parsers[c].callback
             THEN <<[cmd_name |-> commandName(p), cmd_parser |-> c]>>
             ELSE <<>>)
    ELSE <<>>

C11_Step ==
    IF ChildReturns
    THEN LET c      == top.self
             parent == stack[Len(stack) - 1].self
         IN /\ stream = <<>>
            /\ Satisfied(c)
            /\ c = commandParser(parent)
            /\ stack'[Len(stack')].self = parent
            /\ calls' = IF parsers[c].callback
                        THEN Append(calls, [cmd_name |-> commandName(parent),
                                            cmd_parser |-> c])
                        ELSE calls
    ELSE calls' = calls

C11_Final == Returned => calls = CallsDue(Root)

C11_CallbackOrder == [][C11_Step /\ C11_Final']_vars

\* command "boo" with a callback on the root and again on its parser,
\* parse(["boo", "boo", "x"]): the inner callback is invoked first
C11_Witness ==
    /\ Returned
    /\ input = <<"boo", "boo", "x">>
    /\ Len(calls) = 2
    /\ calls[1].cmd_parser = commandParser(commandParser(Root))
    /\ calls[2].cmd_parser = commandParser(Root)
    /\ calls[1].cmd_parser # calls[2].cmd_parser
    /\ calls[1].cmd_name = "boo"

(***************************************************************************)
(* C12: the automatic help command.  A scope that has captured no word yet *)
(* reads the token help.  If the scope has commands and none is called     *)
(* help, the process ends in this step: through exitHelp of the command    *)
(* that the next token names, through exitError if the next token names no *)
(* command, and through exitError with "the help command requires an       *)
(* argument" if there is no next token; help is not captured.  If the      *)
(* scope has no commands, help is captured as a positional argument.       *)
(***************************************************************************)
C12_Step ==
    (Reading /\ Head(stream) = "help" /\ NoWordYet(top.self))
    => LET p    == top.self
           rest == Tail(stream)
       IN IF DOMAIN parsers[p].commands # {} /\ Child(p, "help") = 0
          THEN /\ pc' = "exit"
               /\ \A q \in 1..Len(parsers) :
                    parsers'[q].pos_args = parsers[q].pos_args
               /\ IF rest = <<>>
                  THEN /\ term'.via = "error"
                       /\ term'.is_error
                       /\ term'.text
                            = "Error: the help command requires an argument.\n"
                  ELSE IF Child(p, Head(rest)) # 0
                  THEN /\ term'.via = "help"
                       /\ term'.parser = Child(p, Head(rest))
                       /\ ~term'.is_error
                  ELSE /\ term'.via = "error"
                       /\ term'.is_error
          ELSE DOMAIN parsers[p].commands = {}
               => /\ pc' = "parse"
                  /\ parsers'[p].pos_args
                       = Append(parsers[p].pos_args, "help")
                  /\ Len(stack') = Len(stack)

C12_HelpCommand == [][C12_Step]_vars

\* command "boo" and flag "foo f" on the root, parse(["-f", "help", "boo"]):
\* help is the first word, the process ends in the help of boo
C12_Witness ==
    /\ pc = "exit"
    /\ input = <<"-f", "help", "boo">>
    /\ term.via = "help"
    /\ term.parser = Child(Root, "boo")
    /\ term.parser # Root
    /\ args(Root) = <<>>

(***************************************************************************)
(* C13: the positional-count check is optional.  As stated: the exit with  *)
(* "invalid number of arguments" is taken only by a scope on which         *)
(* setArgsRequired was called.                                             *)
(***************************************************************************)
C13_Original ==
    (pc = "exit" /\ term.text = "Error: invalid number of arguments.\n")
    => parsers[term.parser].declared

(***************************************************************************)
(* C13, as the code behaves: command() also sets a constraint, "exactly    *)
(* zero", on the parser it is called on.  When the parse of a scope        *)
(* reaches its end, a scope on which neither setArgsRequired nor command() *)
(* was called returns normally whatever it captured; a scope with commands *)
(* and without setArgsRequired is rejected with "invalid number of         *)
(* arguments" exactly if it captured a positional argument.                *)
(***************************************************************************)
\* the parse of the innermost scope reaches its positional-count check
AtCountCheck == pc = "parse" /\ stream = <<>>

C13_Step ==
    (AtCountCheck /\ ~parsers[top.self].declared)
    => LET p == top.self IN
       IF DOMAIN parsers[p].commands = {} \/ parsers[p].pos_args = <<>>
       THEN /\ pc' # "exit"
            /\ term' = term
            /\ Len(stack') = Len(stack) - 1
       ELSE /\ pc' = "exit"
            /\ term'.via = "error"
            /\ term'.parser = p
            /\ term'.text = "Error: invalid number of arguments.\n"

C13_OptionalCheck == [][C13_Step]_vars

\* command "boo" on the root, no setArgsRequired, parse(["boo", "x", "x"]):
\* the scope of boo returns with two positional arguments
C13_Witness ==
    /\ Returned
    /\ input = <<"boo", "x", "x">>
    /\ Child(Root, "boo") # 0
    /\ args(Child(Root, "boo")) = <<"x", "x">>
    /\ ~parsers[Child(Root, "boo")].declared
    /\ ~parsers[Root].declared

(***************************************************************************)
(* C14: queries are total.  In every state, before, during and after a     *)
(* parse, a name that no flag() or option() call on the parser has         *)
(* registered has count 0, is not found, has the value "" and no values;   *)
(* and arg(i) is "" for an index i that is not below the number of         *)
(* captured positional arguments.  The queries are const member functions  *)
(* and are operators here: they have a result in every state and change    *)
(* nothing.                                                                *)
(***************************************************************************)
\* the names asked for: registered aliases, a whole alias list, the empty
\* name and a name never registered
QueryNames == {"foo", "f", "a", "bar", "b", "foo f", "bar b", "", "zoo"}

\* how far past the end arg() is asked
PastEnd == 2

\* some flag() or option() call on parser p had the alias n in its list
RegisteredName(p, n) ==
    \/ \E f \in 1..Len(flagObjs) :
         flagObjs[f].owner = p /\ n \in AliasesOf(flagObjs[f].name)
    \/ \E o \in 1..Len(optionObjs) :
         optionObjs[o].owner = p /\ n \in AliasesOf(optionObjs[o].name)

C14_TotalQueries ==
    \A p \in 1..Len(parsers) :
      /\ \A n \in QueryNames :
           ~RegisteredName(p, n)
           => /\ count(p, n) = 0
              /\ ~found(p, n)
              /\ value(p, n) = ""
              /\ values(p, n) = <<>>
      /\ \A i \in Len(args(p))..(Len(args(p)) + PastEnd) : arg(p, i) = ""
      /\ \A i \in 0..(Len(args(p)) - 1) : arg(p, i) = args(p)[i + 1]

\* flag("foo f"), option("bar b"), parse(["-f", "y"]): the alias list
\* "foo f" is not a name, and arg(1) is past the one positional argument
C14_Witness ==
    /\ Returned
    /\ input = <<"-f", "y">>
    /\ RegisteredName(Root, "foo")
    /\ RegisteredName(Root, "bar")
    /\ ~RegisteredName(Root, "foo f")
    /\ count(Root, "f") = 1
    /\ count(Root, "foo f") = 0
    /\ arg(Root, 0) = "y"
    /\ arg(Root, 1) = ""

(***************************************************************************)
(* C15: the matched command.  Before a parse no parser has a command name, *)
(* and commandParser() of a parser without one is the parser itself.  The  *)
(* command name of a parser changes only in the step in which the parser   *)
(* matches a command and the parse of the command's parser is entered: it  *)
(* becomes the alias as typed, which is not empty, and commandParser()     *)
(* becomes the parser that was entered.  So after the parse commandName()  *)
(* is empty exactly for the parsers that matched no command.               *)
(***************************************************************************)
\* the innermost scope matches a command and enters the parse of its parser
Matches == pc = "parse" /\ Len(stack') = Len(stack) + 1

C15_None ==
    \A p \in 1..Len(parsers) :
      /\ commandFound(p) <=> commandName(p) # ""
      /\ ~commandFound(p) => commandParser(p) = p
      /\ nparse = 0 => ~commandFound(p)

C15_Step ==
    IF Matches
    THEN \A p \in {top.self}, c \in {stack'[Len(stack')].self} :
            /\ stream # <<>>
            /\ ~commandFound(p)
            /\ commandFound(p)'
            /\ commandName(p)' = Head(stream)
            /\ commandParser(p)' = c
            /\ c # p
            /\ c = Child(p, Head(stream))
            /\ \A q \in 1..Len(parsers) :
                 q # p => commandName(q)' = commandName(q)
    ELSE \A q \in 1..Len(parsers) : commandName(q)' = commandName(q)

C15_MatchedCommand == [][C15_Step /\ C15_None']_vars

\* commands "boo" and "zoo" on the root, parse(["zoo", "x"]): the root
\* matched zoo, the parser of zoo and the parser of boo matched nothing
C15_Witness ==
    /\ Returned
    /\ input = <<"zoo", "x">>
    /\ Child(Root, "boo") # 0
    /\ commandName(Root) = "zoo"
    /\ commandParser(Root) = Child(Root, "zoo")
    /\ ~commandFound(Child(Root, "zoo"))
    /\ commandParser(Child(Root, "boo")) = Child(Root, "boo")

(***************************************************************************)
(* Specification RebindSpec: registrations that share an alias.  On the    *)
(* root parser flag() is called with "foo f" and "a f", option() with      *)
(* "bar b" and "c b", command() with "boo co" and "zoo co", each list at   *)
(* most once and in any order.                                             *)
(***************************************************************************)
\* longest argument vector
MaxRebindArgs == 2

RebindFlagNames == {"foo f", "a f"}
RebindOptionNames == {"bar b", "c b"}
RebindCommandNames == {"boo co", "zoo co"}

RebindTokens == {"-f", "--foo", "-a", "-b", "--bar", "-c", "y",
                 "co", "boo", "zoo"}

RebindInputs == SeqsUpTo(RebindTokens, MaxRebindArgs)

\* the fallback and the help text that go with an alias list
RebindFallback(n) == IF n = "bar b" THEN "default" ELSE "other"
RebindHelp(n) == "Usage: example " \o n \o "..."

RebindFlag ==
    /\ nparse = 0
    /\ \E n \in RebindFlagNames :
         /\ \A f \in 1..Len(flagObjs) : flagObjs[f].name # n
         /\ flag(Root, n)

RebindOption ==
    /\ nparse = 0
    /\ \E n \in RebindOptionNames :
         /\ \A o \in 1..Len(optionObjs) : optionObjs[o].name # n
         /\ option(Root, n, RebindFallback(n))

RebindCommand ==
    /\ nparse = 0
    /\ \E n \in RebindCommandNames :
         /\ \A c \in 1..Len(parsers) : parsers[c].helptext # RebindHelp(n)
         /\ command(Root, n, RebindHelp(n), FALSE)

RebindNext ==
    \/ RebindFlag
    \/ RebindOption
    \/ RebindCommand
    \/ ParseVector(RebindInputs)
    \/ ParseArgv(RebindInputs)
    \/ parse_loop
    \/ parse_return

RebindSpec == Init /\ [][RebindNext]_vars

(***************************************************************************)
(* Vocabulary of re-registration: the entity that the latest call naming   *)
(* an alias created, found from the recorded calls.                        *)
(***************************************************************************)
SetMax(S) == CHOOSE m \in S : \A k \in S : k <= m

FlagsNaming(p, x) ==
    {f \in 1..Len(flagObjs) :
       flagObjs[f].owner = p /\ x \in AliasesOf(flagObjs[f].name)}

OptionsNaming(p, x) ==
    {o \in 1..Len(optionObjs) :
       optionObjs[o].owner = p /\ x \in AliasesOf(optionObjs[o].name)}

\* the alias list of the command() call that created parser c
CommandList(c) ==
    CHOOSE n \in RebindCommandNames : parsers[c].helptext = RebindHelp(n)

\* the parsers of the commands of the root that were registered under x
CommandsNaming(x) ==
    {c \in 2..Len(parsers) : x \in AliasesOf(CommandList(c))}

\* the name that an option-like token of RebindTokens carries
TokenName(t) ==
    IF SubSeq(t, 1, 2) = "--" THEN SubSeq(t, 3, Len(t))
    ELSE SubSeq(t, 2, Len(t))

RebindAliases == {"foo", "f", "a", "bar", "b", "c", "boo", "zoo", "co"}

(***************************************************************************)
(* C16: re-registration.  A registration call never ends the process and   *)
(* creates one entity.  In every state each alias resolves, for the        *)
(* queries, to the entity of the latest call that named it: count and      *)
(* found to that flag, values and value (with its fallback) to that        *)
(* option, commandParser to that command's parser; so an alias of an       *)
(* earlier call that was not named again still resolves to the earlier     *)
(* entity.  A token naming the alias acts on that entity and on no other.  *)
(***************************************************************************)
C16_Queries ==
    \A x \in RebindAliases :
      /\ FlagsNaming(Root, x) # {}
         => LET f == SetMax(FlagsNaming(Root, x)) IN
            /\ count(Root, x) = flagObjs[f].count
            /\ found(Root, x) <=> flagObjs[f].count > 0
      /\ OptionsNaming(Root, x) # {}
         => LET o == SetMax(OptionsNaming(Root, x)) IN
            /\ values(Root, x) = optionObjs[o].values
            /\ optionObjs[o].values = <<>>
               => value(Root, x) = RebindFallback(optionObjs[o].name)
      /\ (commandName(Root) = x /\ x # "")
         => commandParser(Root) = SetMax(CommandsNaming(x))

C16_Registration ==
    (nparse = 0 /\ nparse' = 0)
    => /\ pc' = "ready"
       /\ term' = term
       /\ Len(flagObjs') + Len(optionObjs') + Len(parsers')
            = Len(flagObjs) + Len(optionObjs) + Len(parsers) + 1

C16_Tokens ==
    (Reading /\ top.self = Root)
    => LET t    == Head(stream)
           x    == TokenName(t)
           rest == Tail(stream)
       IN /\ (SubSeq(t, 1, 1) = "-" /\ FlagsNaming(Root, x) # {})
             => flagObjs' = [flagObjs EXCEPT
                               ![SetMax(FlagsNaming(Root, x))].count = @ + 1]
          /\ (SubSeq(t, 1, 1) = "-" /\ OptionsNaming(Root, x) # {}
                /\ rest # <<>>)
             => optionObjs' = [optionObjs EXCEPT
                                 ![SetMax(OptionsNaming(Root, x))].values
                                    = Append(@, Head(rest))]
          /\ (NoWordYet(Root) /\ CommandsNaming(t) # {})
             => /\ Matches
                /\ stack'[Len(stack')].self = SetMax(CommandsNaming(t))

C16_LastWins == [][C16_Registration /\ C16_Tokens /\ C16_Queries']_vars

\* flag("foo f") then flag("a f"), command("boo co") then command("zoo co"),
\* parse(["-f", "co"]): f counts the later flag, foo still names the
\* earlier one, co enters the parser of the later command
C16_Witness ==
    /\ Returned
    /\ input = <<"-f", "co">>
    /\ Len(flagObjs) = 2
    /\ flagObjs[1].name = "foo f"
    /\ count(Root, "f") = 1
    /\ count(Root, "a") = 1
    /\ count(Root, "foo") = 0
    /\ Len(parsers) = 3
    /\ CommandList(2) = "boo co"
    /\ commandParser(Root) = 3
    /\ Child(Root, "boo") = 2

(***************************************************************************)
(* C17: the default output.  When the process has ended and the output     *)
(* context of the root is the default one, a help or version display was   *)
(* written to standard output with status 0, and an error text to the      *)
(* error stream with status 1.  The text written is the version and a      *)
(* newline for exitVersion, begins with the help text and a newline for    *)
(* exitHelp, and is an "Error: " line for exitError.                       *)
(***************************************************************************)
\* the sink that the output context of the root holds
RootSink == octxObjs[parsers[Root].octx].sink

\* s begins with pre
StartsWith(s, pre) == Len(s) >= Len(pre) /\ SubSeq(s, 1, Len(pre)) = pre

C17_DefaultOutput ==
    (pc = "exit" /\ ~RootSink.custom)
    => /\ term.via \in {"help", "version", "error"}
       /\ term.via = "help"
          => /\ term.dest = "cout" /\ term.status = 0
             /\ StartsWith(term.text, parsers[term.parser].helptext \o "\n")
       /\ term.via = "version"
          => /\ term.dest = "cout" /\ term.status = 0
             /\ term.text = parsers[term.parser].version \o "\n"
       /\ term.via = "error"
          => /\ term.dest = "cerr" /\ term.status = 1
             /\ StartsWith(term.text, "Error: ")

\* parse(["-x"]) without setOutput: the error text goes to the error
\* stream and the status is 1
C17_Witness ==
    /\ pc = "exit"
    /\ input = <<"-x">>
    /\ ~RootSink.custom
    /\ term.via = "error"
    /\ term.dest = "cerr"
    /\ term.status = 1

(***************************************************************************)
(* Specification SinkSpec: output closures in a command tree.  setOutput   *)
(* may be called on any parser of the tree, before or after the command()  *)
(* calls, with the closure of example3 or with one that returns a status   *)
(* of its own for every text; the commands "boo" and "zoo" may be          *)
(* registered on any parser.                                               *)
(***************************************************************************)
\* parsers in the command tree, the root included
MaxSinkParsers == 3
\* longest argument vector
MaxSinkArgs == 3

\* example3's closure returns 42 for an error text and 0 otherwise; the
\* other one returns 3 for an error text and 2 otherwise
SinkClosures == {[ok |-> 0, err |-> 42], [ok |-> 2, err |-> 3]}

SinkCommandNames == {"boo", "zoo"}
SinkCallbacks == {FALSE}

SinkTokens == {"boo", "zoo", "--help", "--version", "-x"}

SinkInputs == SeqsUpTo(SinkTokens, MaxSinkArgs)

\* a setOutput call on any parser; one that finds a context in place
\* changes nothing
SinkSetOutput ==
    /\ nparse = 0
    /\ \E p \in 1..Len(parsers), c \in SinkClosures : setOutput(p, c)

SinkRegisterCommand ==
    /\ Len(parsers) < MaxSinkParsers
    /\ RegisterCommand(1..Len(parsers), SinkCommandNames, SinkCallbacks)

SinkNext ==
    \/ SinkSetOutput
    \/ SinkRegisterCommand
    \/ ParseVector(SinkInputs)
    \/ parse_loop
    \/ parse_return

SinkSpec == Init /\ [][SinkNext]_vars

\* the sink that the output context of parser p holds
SinkOf(p) == octxObjs[parsers[p].octx].sink

(***************************************************************************)
(* C18, as stated: whichever sink is installed, a help or version display  *)
(* ends the process with status 0, and a status other than 0 or 1 is seen  *)
(* only on a parse error.  The closure that returns 2 for a text that is   *)
(* not an error refutes it: parse(["--help"]) ends with status 2.          *)
(***************************************************************************)
C18_Original ==
    pc = "exit"
    => /\ term.via \in {"help", "version"} => term.status = 0
       /\ term.status \notin {0, 1} => term.via = "error"

(***************************************************************************)
(* C18: the exit status of a help or version display is 0 with the default *)
(* sink, and with a closure installed it is the value the closure returns  *)
(* for a text that is not an error (0 for the closure of example3).  A     *)
(* status other than 0 or 1 is always the return value of an installed     *)
(* closure: for an error text on a parse error, for the other text on a    *)
(* help or version display.                                                *)
(***************************************************************************)
C18_SinkStatus ==
    pc = "exit"
    => LET sink == SinkOf(term.parser) IN
       /\ term.via \in {"help", "version"}
          => /\ ~term.is_error
             /\ term.status = IF sink.custom THEN sink.ok ELSE 0
       /\ term.via = "error"
          => /\ term.is_error
             /\ term.status = IF sink.custom THEN sink.err ELSE 1
       /\ term.status \notin {0, 1} => sink.custom

\* setOutput with the closure returning 2, then parse(["--version"]): the
\* version is handed to the closure and the process ends with status 2
C18_Witness ==
    /\ pc = "exit"
    /\ input = <<"--version">>
    /\ term.via = "version"
    /\ term.dest = "closure"
    /\ term.text = "1.0\n"
    /\ SinkOf(Root) = [custom |-> TRUE, ok |-> 2, err |-> 3]
    /\ term.status = 2

(***************************************************************************)
(* C19: one output context for the whole tree.  Whatever setOutput and     *)
(* command() calls were made, on whichever parsers and in whichever order, *)
(* every parser made by command() holds the output context of the root,    *)
(* and that context exists.  When the process has ended, in whichever      *)
(* scope, the text written is the buffer of the root's context and the     *)
(* destination and status are those that the flush of the root's context   *)
(* gives.                                                                  *)
(***************************************************************************)
\* the parsers made by command(): all but the root
Descendants == 2..Len(parsers)

C19_OneContext ==
    /\ \A c \in Descendants :
         parsers[c].octx # 0 /\ parsers[c].octx = parsers[Root].octx
    /\ \A p \in 1..Len(parsers) :
         \A k \in DOMAIN parsers[p].commands :
           parsers[p].commands[k] \in Descendants
    /\ pc = "exit"
       => /\ term.text = octxObjs[parsers[Root].octx].buf
          /\ term = flush(octxObjs[parsers[Root].octx], term.text,
                          term.is_error, term.via, term.parser)

\* setOutput on the root, command "boo" on it and "zoo" below "boo";
\* parse(["boo", "zoo", "--help"]): the help text of zoo is handed to the
\* closure installed on the root
C19_Witness ==
    /\ pc = "exit"
    /\ input = <<"boo", "zoo", "--help">>
    /\ Child(Root, "boo") # 0
    /\ Child(Child(Root, "boo"), "zoo") # 0
    /\ term.parser = Child(Child(Root, "boo"), "zoo")
    /\ term.via = "help"
    /\ term.dest = "closure"
    /\ SinkOf(Root).custom
    /\ term.status = SinkOf(Root).ok

(***************************************************************************)
(* C20: the frame of parse.  In every step of a parse call, from its entry *)
(* to its return or to the exit of the process: no parser, Flag or Option  *)
(* is added or removed; the flag, option and command maps of every parser, *)
(* its help text, its version and its positional-count constraint are     *)
(* unchanged, and so is the fallback of every option; no flag counter      *)
(* decreases; the values of every option and the positional list of every  *)
(* parser before the step are a prefix of those after it.                  *)
(***************************************************************************)
\* s is a prefix of t
IsPrefixOf(s, t) == Len(s) <= Len(t) /\ SubSeq(t, 1, Len(s)) = s

\* the step belongs to a parse call
InParse == pc = "parse" \/ pc' = "parse" \/ nparse' # nparse

C20_Step ==
    /\ Len(parsers') = Len(parsers)
    /\ Len(flagObjs') = Len(flagObjs)
    /\ Len(optionObjs') = Len(optionObjs)
    /\ \A p \in 1..Len(parsers) :
         /\ parsers'[p].flags = parsers[p].flags
         /\ parsers'[p].options = parsers[p].options
         /\ parsers'[p].commands = parsers[p].commands
         /\ parsers'[p].helptext = parsers[p].helptext
         /\ parsers'[p].version = parsers[p].version
         /\ parsers'[p].argcount = parsers[p].argcount
         /\ IsPrefixOf(parsers[p].pos_args, parsers'[p].pos_args)
    /\ \A f \in 1..Len(flagObjs) :
         flagObjs'[f].count >= flagObjs[f].count
    /\ \A o \in 1..Len(optionObjs) :
         /\ optionObjs'[o].fallback = optionObjs[o].fallback
         /\ IsPrefixOf(optionObjs[o].values, optionObjs'[o].values)

C20_ParseFrame == [][InParse => C20_Step]_vars

\* flag "foo f" and option "bar b" on the root; parse(["-f", "-b", "x"])
\* has returned: the flag was counted once, the option holds "x" and its
\* fallback, and the maps still bind four names
C20_Witness ==
    /\ Returned
    /\ input = <<"-f", "-b", "x">>
    /\ DOMAIN parsers[Root].flags = {"foo", "f"}
    /\ DOMAIN parsers[Root].options = {"bar", "b"}
    /\ flagObjs[parsers[Root].flags["f"]].count = 1
    /\ optionObjs[parsers[Root].options["b"]].values = <<"x">>
    /\ optionObjs[parsers[Root].options["b"]].fallback = "default"
    /\ parsers[Root].pos_args = <<>>

(***************************************************************************)
(* Specification EqSpec: the forms --name=value and -n=value.  On one      *)
(* parser with help text and version, the flag "foo f" and the options     *)
(* "bar b", "fb" and "foo f" may be registered, in any order, so that the  *)
(* names foo and f can be a flag, an option or both.                       *)
(***************************************************************************)
\* longest argument vector
MaxEqArgs == 2

EqTokens == {"--bar=x", "--bar=", "--bar=a=b", "--foo=x", "--help=x",
             "--version=x", "-b=z", "-b=", "-fb=z", "-f=z", "--foo", "-f",
             "y"}

EqInputs == SeqsUpTo(EqTokens, MaxEqArgs)

EqFlagNames == {"foo f"}
EqOptionNames == {"bar b", "fb", "foo f"}
EqFallbacks == {"default"}

EqNext ==
    \/ RegisterFlag(EqFlagNames)
    \/ RegisterOption(EqOptionNames, EqFallbacks)
    \/ ParseVector(EqInputs)
    \/ parse_loop
    \/ parse_return

EqSpec == Init /\ [][EqNext]_vars

(***************************************************************************)
(* Vocabulary of the properties about the forms with "=".                  *)
(***************************************************************************)
\* the characters of the string s
Chars(s) == {SubSeq(s, i, i) : i \in 1..Len(s)}

\* the place of the first "=" of s, counted from 1
FirstEq(s) ==
    CHOOSE i \in 1..Len(s) :
      SubSeq(s, i, i) = "=" /\ \A j \in 1..(i - 1) : SubSeq(s, j, j) # "="

\* a token --N=V, and its parts
IsLongEq(t) == Len(t) > 2 /\ SubSeq(t, 1, 2) = "--" /\ "=" \in Chars(t)
LongEqName(t) == SubSeq(t, 3, FirstEq(t) - 1)
LongEqValue(t) == SubSeq(t, FirstEq(t) + 1, Len(t))

\* the step reads the token t in the scope of parser p
Reads(p, t) == Reading /\ top.self = p /\ Head(stream) = t

(***************************************************************************)
(* C21: the long form with "=".  A step that reads a token --N=V takes     *)
(* that token from the stream and no other, and changes no flag counter.   *)
(* When N is a key of the option map of the scope and V is not empty, V is *)
(* appended to the values of that option, nothing else changes in the      *)
(* options and the parse goes on.  Otherwise, also when N is a flag of the *)
(* scope or is help or version, the process ends through exitError and no  *)
(* option has changed.                                                     *)
(***************************************************************************)
C21_Step ==
    \A p \in 1..Len(parsers), t \in EqTokens :
      (Reads(p, t) /\ IsLongEq(t))
      => \A o \in {lookup(parsers[p].options, LongEqName(t))} :
           /\ stream' = Tail(stream)
           /\ flagObjs' = flagObjs
           /\ parsers' = parsers
           /\ IF o # 0 /\ LongEqValue(t) # ""
              THEN /\ pc' = "parse"
                   /\ optionObjs' =
                        [optionObjs EXCEPT
                           ![o].values = Append(@, LongEqValue(t))]
              ELSE /\ pc' = "exit"
                   /\ term'.via = "error"
                   /\ term'.is_error
                   /\ optionObjs' = optionObjs

C21_LongEquals == [][C21_Step]_vars

\* option "bar b" registered; parse(["--bar=a=b"]) has returned and the
\* option holds the one value "a=b"
C21_Witness ==
    /\ Returned
    /\ input = <<"--bar=a=b">>
    /\ values(Root, "bar") = <<"a=b">>
    /\ args(Root) = <<>>

\* a token -S=V that is read as a short option, and its parts
IsShortEq(t) ==
    /\ Len(t) > 1
    /\ SubSeq(t, 1, 1) = "-"
    /\ SubSeq(t, 2, 2) \notin {"-", "0", "1", "2", "3", "4", "5", "6", "7",
                               "8", "9"}
    /\ "=" \in Chars(t)
ShortEqName(t) == SubSeq(t, 2, FirstEq(t) - 1)
ShortEqValue(t) == SubSeq(t, FirstEq(t) + 1, Len(t))

(***************************************************************************)
(* C22: the short form with "=".  A step that reads a token -S=V takes     *)
(* that token from the stream and no other, and changes no flag counter,   *)
(* whatever the characters of S are registered as.  When the whole of S is *)
(* a key of the option map of the scope and V is not empty, V is appended  *)
(* to that option and nothing else changes; otherwise the process ends     *)
(* through exitError with a text that names the whole of S, and no option  *)
(* has changed.                                                            *)
(***************************************************************************)
C22_Step ==
    \A p \in 1..Len(parsers), t \in EqTokens :
      (Reads(p, t) /\ IsShortEq(t))
      => \A o \in {lookup(parsers[p].options, ShortEqName(t))} :
           /\ stream' = Tail(stream)
           /\ flagObjs' = flagObjs
           /\ parsers' = parsers
           /\ IF o # 0 /\ ShortEqValue(t) # ""
              THEN /\ pc' = "parse"
                   /\ optionObjs' =
                        [optionObjs EXCEPT
                           ![o].values = Append(@, ShortEqValue(t))]
              ELSE /\ pc' = "exit"
                   /\ term'.via = "error"
                   /\ term'.text =
                        IF o # 0
                        THEN "Error: missing value for -" \o ShortEqName(t)
                             \o ".\n"
                        ELSE "Error: -" \o ShortEqName(t)
                             \o " is not a recognised option.\n"
                   /\ optionObjs' = optionObjs

C22_ShortEquals == [][C22_Step]_vars

\* flag "foo f" and option "bar b" registered, no option "fb";
\* parse(["-fb=z"]) ends in an error about -fb: f was not counted and b
\* holds no value
C22_Witness ==
    /\ pc = "exit"
    /\ input = <<"-fb=z">>
    /\ "f" \in DOMAIN parsers[Root].flags
    /\ "b" \in DOMAIN parsers[Root].options
    /\ "fb" \notin DOMAIN parsers[Root].options
    /\ term.text = "Error: -fb is not a recognised option.\n"
    /\ count(Root, "f") = 0
    /\ values(Root, "b") = <<>>

(***************************************************************************)
(* Specification ValueSpec: the token after an option.  The command "boo"  *)
(* may be registered on the root, and the flag "foo f" and the option      *)
(* "bar b" on either parser; the token after --bar or -b may be "--", an   *)
(* option or flag token, the command name or a plain word.                 *)
(***************************************************************************)
\* longest argument vector
MaxValueArgs == 3

ValueTokens == {"--bar", "-b", "--bar=x", "--", "-f", "boo", "y"}

ValueInputs == SeqsUpTo(ValueTokens, MaxValueArgs)

ValueParents == {Root}
ValueCommandNames == {"boo"}
ValueCallbacks == {FALSE}
ValueFlagNames == {"foo f"}
ValueOptionNames == {"bar b"}
ValueFallbacks == {"default"}

ValueNext ==
    \/ RegisterCommand(ValueParents, ValueCommandNames, ValueCallbacks)
    \/ RegisterFlag(ValueFlagNames)
    \/ RegisterOption(ValueOptionNames, ValueFallbacks)
    \/ ParseVector(ValueInputs)
    \/ parse_loop
    \/ parse_return

ValueSpec == Init /\ [][ValueNext]_vars

\* the tokens --bar and -b, and the name each carries
OptionForms == {"--bar", "-b"}
FormName(t) == IF t = "--bar" THEN "bar" ELSE "b"

(***************************************************************************)
(* C23: the value of an option given without "=".  A step that reads --bar *)
(* or -b in a scope where the name is an option takes the next token of    *)
(* the stream, whatever it is, and appends it unchanged to the values of   *)
(* that option: the stream loses the two tokens, and no flag, no other     *)
(* option, no positional list, no command match and no activation changes. *)
(* When no token follows, the process ends through exitError and no option *)
(* has changed.                                                            *)
(***************************************************************************)
C23_Step ==
    \A p \in 1..Len(parsers), t \in OptionForms :
      (Reads(p, t) /\ KindOf(p, FormName(t)) = "option")
      => \A o \in {parsers[p].options[FormName(t)]} :
           IF Tail(stream) # <<>>
           THEN /\ pc' = "parse"
                /\ stream' = Tail(Tail(stream))
                /\ optionObjs' =
                     [optionObjs EXCEPT
                        ![o].values = Append(@, Head(Tail(stream)))]
                /\ UNCHANGED <<flagObjs, parsers, stack, calls>>
           ELSE /\ pc' = "exit"
                /\ term'.via = "error"
                /\ term'.text = "Error: missing argument for " \o t \o ".\n"
                /\ UNCHANGED <<flagObjs, optionObjs, parsers>>

C23_VerbatimValue == [][C23_Step]_vars

\* flag "foo f" and option "bar b" on the root; parse(["-b", "--", "-f"])
\* has returned: "--" is the value of b, and the flag after it was counted
\* instead of being kept as a positional argument
C23_Witness ==
    /\ Returned
    /\ input = <<"-b", "--", "-f">>
    /\ values(Root, "bar") = <<"--">>
    /\ count(Root, "foo") = 1
    /\ args(Root) = <<>>

(***************************************************************************)
(* C24: the two entry points.  A parse(argc, argv) call with argc >= 1     *)
(* ends as the parse(vector) call with the arguments after the program     *)
(* name does.  With argc > 1 its first step is the first step of that      *)
(* call, and both go on through the same loop.  With argc = 1 it returns   *)
(* at once and leaves every count, value and list as it was; parse(vector) *)
(* with no argument changes none of them either, and returns normally      *)
(* exactly when the positional list of the root meets its constraint.  A   *)
(* root that requires one positional argument refutes the statement:       *)
(* parse(argc = 1) returns normally where parse(vector) ends the process.  *)
(***************************************************************************)
\* the argument vectors of main() with argc >= 1
ProgramArgvs == {<<"example">> \o i : i \in ArgsInputs}

\* what parse(vector) with no argument does: it returns normally, or ends
\* the process with the error of the count check
EmptyVectorReturns == isValid(parsers[Root].argcount, Len(args(Root)))

C24_Step ==
    \A argv \in ProgramArgvs :
      parse_argv(argv)
      => IF Len(argv) > 1 THEN parse_vector(Tail(argv))
         ELSE EmptyVectorReturns

C24_SameOutcome == [][C24_Step]_vars

(***************************************************************************)
(* Specification OrderSpec: setArgsRequired and command() in any order.    *)
(* The commands "boo" and "zoo" may be registered on the root, and         *)
(* setArgsRequired may be called on any parser, before, between and after  *)
(* the command() calls.                                                    *)
(***************************************************************************)
\* largest required number
MaxOrderRequired == 1
\* longest argument vector
MaxOrderArgs == 2

OrderTokens == {"boo", "x"}

OrderInputs == SeqsUpTo(OrderTokens, MaxOrderArgs)

OrderParents == {Root}
OrderCommandNames == {"boo", "zoo"}
OrderCallbacks == {FALSE}

OrderRequire ==
    /\ nparse = 0
    /\ \E p \in 1..Len(parsers), n \in 0..MaxOrderRequired,
          more \in BOOLEAN :
         setArgsRequired(p, n, more)

OrderNext ==
    \/ RegisterCommand(OrderParents, OrderCommandNames, OrderCallbacks)
    \/ OrderRequire
    \/ ParseVector(OrderInputs)
    \/ parse_loop
    \/ parse_return

OrderSpec == Init /\ [][OrderNext]_vars

(***************************************************************************)
(* C25: setArgsRequired and command() on the same parser.  A command()     *)
(* call sets the constraint of the parser it is called on to "exactly      *)
(* zero", whatever it was, leaves the constraint of every other parser,    *)
(* and the parser it creates has no constraint.  A setArgsRequired call    *)
(* sets the constraint it is given, also on a parser that has commands.    *)
(* No step of a parse changes a constraint, and the count check at the end *)
(* of a scope ends the process exactly when the captured arguments do not  *)
(* meet the constraint the scope then has: the one of the latest of these  *)
(* calls.                                                                  *)
(***************************************************************************)
ExactlyZero == [size |-> 0, mode |-> check_eq]

C25_Command ==
    Len(parsers') = Len(parsers) + 1
    => /\ parsers'[Len(parsers')].argcount.mode = no_check
       /\ \E p \in 1..Len(parsers) :
            /\ parsers'[p].commands # parsers[p].commands
            /\ parsers'[p].argcount = ExactlyZero
            /\ \A q \in (1..Len(parsers)) \ {p} :
                 parsers'[q].argcount = parsers[q].argcount

C25_Require ==
    \A p \in 1..Len(parsers), n \in 0..MaxOrderRequired, more \in BOOLEAN :
      setArgsRequired(p, n, more)
      => /\ parsers'[p].argcount =
              [size |-> n, mode |-> IF more THEN check_ge ELSE check_eq]
         /\ \A q \in (1..Len(parsers)) \ {p} :
              parsers'[q].argcount = parsers[q].argcount

C25_InForce ==
    /\ InParse
       => \A p \in 1..Len(parsers) :
            parsers'[p].argcount = parsers[p].argcount
    /\ AtCountCheck => (pc' = "exit" <=> ~Satisfied(top.self))

C25_LatestCallWins == [][C25_Command /\ C25_Require /\ C25_InForce]_vars

\* setArgsRequired(1) on the root after its commands "boo" and "zoo" were
\* registered; parse(["x"]) has returned with the positional argument
C25_Witness ==
    /\ Returned
    /\ input = <<"x">>
    /\ Child(Root, "boo") # 0
    /\ Child(Root, "zoo") # 0
    /\ parsers[Root].argcount = [size |-> 1, mode |-> check_eq]
    /\ args(Root) = <<"x">>

(***************************************************************************)
(* C26: a name that is both a flag and an option of one scope.  A step     *)
(* that reads --foo or -f where the name is both increments the flag once  *)
(* and takes no value: the stream loses that token only and no option      *)
(* changes.  In every state count and found report the counter of the flag *)
(* and value and values report the option, which --foo=v appends to.  For  *)
(* a name that is an option only, found is true exactly when values is not *)
(* empty.                                                                  *)
(***************************************************************************)
\* the names that the alias lists of EqSpec bind
EqNames == {"foo", "f", "bar", "b", "fb"}

\* n is a flag and an option of parser p; n is an option of p only
IsBoth(p, n) == n \in DOMAIN parsers[p].flags /\ n \in DOMAIN parsers[p].options
OptionOnly(p, n) ==
    n \notin DOMAIN parsers[p].flags /\ n \in DOMAIN parsers[p].options

\* the tokens --foo and -f, and the name each carries
FlagForms == {"--foo", "-f"}
FlagFormName(t) == IF t = "--foo" THEN "foo" ELSE "f"

C26_Step ==
    \A p \in 1..Len(parsers), t \in FlagForms :
      (Reads(p, t) /\ IsBoth(p, FlagFormName(t)))
      => \A f \in {parsers[p].flags[FlagFormName(t)]} :
           /\ pc' = "parse"
           /\ stream' = Tail(stream)
           /\ flagObjs' = [flagObjs EXCEPT ![f].count = @ + 1]
           /\ optionObjs' = optionObjs
           /\ parsers' = parsers

C26_Queries ==
    \A p \in 1..Len(parsers), n \in EqNames :
      /\ IsBoth(p, n)
         => /\ count(p, n) = flagObjs[parsers[p].flags[n]].count
            /\ found(p, n) <=> flagObjs[parsers[p].flags[n]].count > 0
            /\ values(p, n) = optionObjs[parsers[p].options[n]].values
            /\ value(p, n) =
                 IF values(p, n) = <<>>
                 THEN optionObjs[parsers[p].options[n]].fallback
                 ELSE values(p, n)[Len(values(p, n))]
      /\ OptionOnly(p, n) => (found(p, n) <=> values(p, n) # <<>>)

C26_FlagAndOption == [][C26_Step /\ C26_Queries']_vars

\* "foo f" is registered as a flag and as an option;
\* parse(["--foo=x", "--foo=x"]) has returned: the option holds two values
\* and foo is not found, since count follows the flag
C26_Witness ==
    /\ Returned
    /\ input = <<"--foo=x", "--foo=x">>
    /\ IsBoth(Root, "foo")
    /\ ~found(Root, "foo")
    /\ count(Root, "foo") = 0
    /\ values(Root, "foo") = <<"x", "x">>
    /\ value(Root, "foo") = "x"

(***************************************************************************)
(* Specification LateSpec: setOutput at any time.  setOutput may be called *)
(* on any parser whenever no parse is running: before and after the        *)
(* command() call, and between two parse calls, which are made through     *)
(* either entry point.                                                     *)
(***************************************************************************)
\* parse calls of a run
MaxLateParses == 2
\* longest argument vector
MaxLateArgs == 1

LateTokens == {"boo", "--help", "-x"}

LateInputs == SeqsUpTo(LateTokens, MaxLateArgs)

LateParents == {Root}
LateCommandNames == {"boo"}
LateCallbacks == {FALSE}

LateSetOutput ==
    \E p \in 1..Len(parsers), c \in SinkClosures : setOutput(p, c)

LateParseVector ==
    /\ nparse < MaxLateParses
    /\ \E argv \in LateInputs : parse_vector(argv)

LateParseArgv ==
    /\ nparse < MaxLateParses
    /\ \E argv \in {<<>>} \cup {<<"example">> \o i : i \in LateInputs} :
         parse_argv(argv)

LateNext ==
    \/ LateSetOutput
    \/ RegisterCommand(LateParents, LateCommandNames, LateCallbacks)
    \/ LateParseVector
    \/ LateParseArgv
    \/ parse_loop
    \/ parse_return

LateSpec == Init /\ [][LateNext]_vars

(***************************************************************************)
(* C27: setOutput is ignored once there is a context.  A setOutput call    *)
(* changes nothing when it is made on a parser that has an output context, *)
(* on a parser that has commands, on a parser made by command(), or after  *)
(* a parse call.  The last case fails: parse(argc, argv) with argc <= 1    *)
(* returns without creating the context, and a setOutput after it installs *)
(* its closure.                                                            *)
(***************************************************************************)
C27_Step ==
    \A p \in 1..Len(parsers), c \in SinkClosures :
      (/\ setOutput(p, c)
       /\ \/ parsers[p].octx # 0
          \/ DOMAIN parsers[p].commands # {}
          \/ p \in Descendants
          \/ nparse > 0)
      => UNCHANGED <<octxObjs, parsers>>

C27_IgnoredLater == [][C27_Step]_vars

(***************************************************************************)
(* C28: token accounting.  The stream is always what is left of the input  *)
(* after the tokens taken so far, and it is empty when parse returns.      *)
(* Every iteration of the loop takes one or more tokens from the front of  *)
(* the stream and each of them has exactly one use: the first is the "--"  *)
(* marker, a flag/option token, the command name of the scope or a         *)
(* positional argument of the scope; the others are the positional         *)
(* arguments after the marker or the values of the option token, in order. *)
(* So the uses add up to the number of tokens taken, and at the return     *)
(* the positional list of each scope is a subsequence of the input.  A     *)
(* value given with "=" is not a stream token.                             *)
(***************************************************************************)
\* s is what is left of t after some of its first elements
IsSuffixOf(s, t) ==
    Len(s) <= Len(t) /\ SubSeq(t, Len(t) - Len(s) + 1, Len(t)) = s

\* the elements of s occur in t, in the same order
RECURSIVE IsSubsequenceOf(_, _)
IsSubsequenceOf(s, t) ==
    IF s = <<>> THEN TRUE
    ELSE IF t = <<>> THEN FALSE
    ELSE IF Head(s) = Head(t) THEN IsSubsequenceOf(Tail(s), Tail(t))
    ELSE IsSubsequenceOf(s, Tail(t))

\* a token that the loop hands to parseLongOption or parseShortOption
IsOptionToken(t) ==
    /\ t # "--"
    /\ CharAt(t, 0) = "-"
    /\ Len(t) > 1
    /\ ~isdigit(CharAt(t, 1))

\* the value that a token carries behind its first "="
EqValue(t) ==
    IF "=" \in Chars(t) THEN <<SubSeq(t, FirstEq(t) + 1, Len(t))>> ELSE <<>>

\* the values that the step appends to the option objects 1..n
RECURSIVE NewValues(_)
NewValues(n) ==
    IF n = 0 THEN <<>>
    ELSE NewValues(n - 1)
         \o SubSeq(optionObjs'[n].values, Len(optionObjs[n].values) + 1,
                   Len(optionObjs'[n].values))

\* the positional arguments that the step appends to the parsers 1..n
RECURSIVE NewArgs(_)
NewArgs(n) ==
    IF n = 0 THEN <<>>
    ELSE NewArgs(n - 1)
         \o SubSeq(parsers'[n].pos_args, Len(parsers[n].pos_args) + 1,
                   Len(parsers'[n].pos_args))

C28_Step ==
    (Reading /\ pc' = "parse")
    => \A p \in {top.self}, a \in {Head(stream)},
          k \in {Len(stream) - Len(stream')} :
         /\ k >= 1
         /\ stream' = SubSeq(stream, k + 1, Len(stream))
         /\ Len(NewArgs(Len(parsers))) + Len(NewValues(Len(optionObjs)))
              + (Len(stack') - Len(stack))
              + (IF a = "--" \/ IsOptionToken(a) THEN 1 ELSE 0)
              = k + Len(EqValue(a))
         /\ IF a = "--"
            THEN /\ NewArgs(Len(parsers)) = SubSeq(stream, 2, k)
                 /\ NewValues(Len(optionObjs)) = <<>>
                 /\ stack' = stack
            ELSE IF IsOptionToken(a)
            THEN /\ NewValues(Len(optionObjs))
                      = EqValue(a) \o SubSeq(stream, 2, k)
                 /\ NewArgs(Len(parsers)) = <<>>
                 /\ stack' = stack
            ELSE IF Len(stack') = Len(stack) + 1
            THEN /\ k = 1
                 /\ parsers'[p].command_name = a
                 /\ parsers[p].command_name = ""
                 /\ NewArgs(Len(parsers)) = <<>>
                 /\ NewValues(Len(optionObjs)) = <<>>
            ELSE /\ k = 1
                 /\ NewArgs(Len(parsers)) = <<a>>
                 /\ parsers'[p].pos_args = Append(parsers[p].pos_args, a)
                 /\ NewValues(Len(optionObjs)) = <<>>
                 /\ Len(stack') = Len(stack)

C28_Stream ==
    /\ pc = "parse" => IsSuffixOf(stream, input)
    /\ (pc = "parse" /\ ~Reading) => stream' = stream
    /\ Returned'
       => /\ stream' = <<>>
          /\ \A p \in 1..Len(parsers) :
               IsSubsequenceOf(parsers'[p].pos_args, input')

C28_TokenAccounting == [][C28_Step /\ C28_Stream]_vars

\* command "boo" on the root; parse(["boo", "--", "-f"]) has returned:
\* "boo" is the command name of the root, "--" was the marker in the scope
\* of boo and "-f" is its positional argument
C28_Witness ==
    /\ Returned
    /\ input = <<"boo", "--", "-f">>
    /\ stream = <<>>
    /\ commandName(Root) = "boo"
    /\ args(Root) = <<>>
    /\ Child(Root, "boo") # 0
    /\ args(Child(Root, "boo")) = <<"-f">>

(***************************************************************************)
(* Specification SubSpec: help and version in a command scope.  The root   *)
(* is constructed with or without help text and version; the command "boo" *)
(* is registered with or without a help text; the flag "version v" may be  *)
(* registered on either parser.                                            *)
(***************************************************************************)
\* longest argument vector
MaxSubArgs == 2

SubTokens == {"boo", "--version", "-v", "--help", "-h"}

SubInputs == SeqsUpTo(SubTokens, MaxSubArgs)

SubHelpTexts == {"", "Usage: example boo..."}
SubFlagNames == {"version v"}

SubCommand ==
    /\ nparse = 0
    /\ Unused(parsers[Root].commands, "boo")
    /\ \E h \in SubHelpTexts : command(Root, "boo", h, FALSE)

SubNext ==
    \/ SubCommand
    \/ RegisterFlag(SubFlagNames)
    \/ ParseVector(SubInputs)
    \/ parse_loop
    \/ parse_return

SubSpec == HelpInit /\ [][SubNext]_vars

(***************************************************************************)
(* C29: version and help in a command scope.  A parser made by command()   *)
(* has the empty version, so no exit through exitVersion is ever made in   *)
(* its scope: --version and -v read there end the process through          *)
(* exitError as not recognised unless the name is registered in that       *)
(* scope, whatever version the root has.  --help and -h read there, when   *)
(* not registered, show the help of the command if its own help text is    *)
(* not empty and are an error otherwise, whatever help text the root has.  *)
(***************************************************************************)
\* the tokens of the built-in names and the name each carries
VersionForms == {"--version", "-v"}
HelpForms == {"--help", "-h"}
BuiltInName(t) ==
    CASE t = "--version" -> "version" [] t = "-v" -> "v"
      [] t = "--help" -> "help" [] t = "-h" -> "h"

\* n is the name of a flag or an option of parser p
IsRegistered(p, n) ==
    n \in DOMAIN parsers[p].flags \/ n \in DOMAIN parsers[p].options

Unrecognised(t) == "Error: " \o t \o " is not a recognised flag or option.\n"

C29_Inv ==
    /\ \A c \in Descendants : parsers[c].version = ""
    /\ (pc = "exit" /\ term.via = "version") => term.parser = Root

C29_Step ==
    \A c \in Descendants :
      /\ \A t \in VersionForms :
           (Reads(c, t) /\ ~IsRegistered(c, BuiltInName(t)))
           => /\ pc' = "exit"
              /\ term'.via = "error"
              /\ term'.parser = c
              /\ term'.text = Unrecognised(t)
      /\ \A t \in HelpForms :
           (Reads(c, t) /\ ~IsRegistered(c, BuiltInName(t)))
           => /\ pc' = "exit"
              /\ term'.parser = c
              /\ IF parsers[c].helptext # ""
                 THEN /\ term'.via = "help"
                      /\ StartsWith(term'.text, parsers[c].helptext \o "\n")
                 ELSE /\ term'.via = "error"
                      /\ term'.text = Unrecognised(t)

C29_SubCommandVersion == [][C29_Step /\ C29_Inv']_vars

\* the root has the version "1.0"; parse(["boo", "--version"]) ends in the
\* scope of boo with an error
C29_Witness ==
    /\ pc = "exit"
    /\ input = <<"boo", "--version">>
    /\ parsers[Root].version = "1.0"
    /\ Child(Root, "boo") # 0
    /\ term.parser = Child(Root, "boo")
    /\ term.via = "error"
    /\ term.text = "Error: --version is not a recognised flag or option.\n"

(***************************************************************************)
(* Specification AgainSpec: two parse calls.  On the root the flag         *)
(* "foo f", the option "bar b" and the command "boo" may be registered and *)
(* "at least n positional arguments" may be required; the program then     *)
(* calls parse(vector) and, when that call has returned, calls it again.   *)
(***************************************************************************)
\* largest required number
MaxAgainRequired == 1
\* longest argument vector
MaxAgainArgs == 2

AgainTokens == {"-f", "--bar=y", "x", "boo"}

AgainInputs == SeqsUpTo(AgainTokens, MaxAgainArgs)

AgainFlag ==
    /\ nparse = 0
    /\ Unused(parsers[Root].flags, "foo f")
    /\ flag(Root, "foo f")

AgainOption ==
    /\ nparse = 0
    /\ Unused(parsers[Root].options, "bar b")
    /\ option(Root, "bar b", "default")

AgainCommand ==
    /\ nparse = 0
    /\ Unused(parsers[Root].commands, "boo")
    /\ command(Root, "boo", "Usage: example boo...", FALSE)

AgainRequire ==
    /\ nparse = 0
    /\ \E n \in 1..MaxAgainRequired : setArgsRequired(Root, n, TRUE)

\* the first parse call, and the second one after the first has returned
AgainFirst == nparse = 0 /\ \E argv \in AgainInputs : parse_vector(argv)
AgainSecond == nparse = 1 /\ \E argv \in AgainInputs : parse_vector(argv)

AgainNext ==
    \/ AgainFlag
    \/ AgainOption
    \/ AgainCommand
    \/ AgainRequire
    \/ AgainFirst
    \/ AgainSecond
    \/ parse_loop
    \/ parse_return

AgainSpec == Init /\ [][AgainNext]_vars

(***************************************************************************)
(* C30: parse does not reset.  The entry of a parse call after an earlier  *)
(* one leaves every flag counter, every option's values, every positional  *)
(* list and every command name as the earlier call left them.  Every       *)
(* iteration of the loop, in the first call and in the second alike, adds  *)
(* the effect of its token to what is there: -f adds one to the counter,   *)
(* --bar=y appends "y" to the values, a matched command sets the command   *)
(* name of the scope, any other word is appended to its positional list.   *)
(* The count check at the end of a scope is made on the whole list, and a  *)
(* scope that passes it changes none of the results.  So after A and then  *)
(* B the counters are the sums, the values and the lists are those of A    *)
(* followed by those of B, and the command name set by A stays when B      *)
(* matches no command.                                                     *)
(***************************************************************************)
\* the step enters a parse call that follows an earlier one
EntersAgain == pc = "ready" /\ nparse >= 1 /\ nparse' = nparse + 1

C30_Entry ==
    EntersAgain
    => /\ pc' = "parse"
       /\ stream' = input'
       /\ UNCHANGED <<flagObjs, optionObjs, parsers>>

C30_Loop ==
    (Reading /\ pc' = "parse")
    => \A p \in {top.self}, a \in {Head(stream)} :
         IF a = "-f"
         THEN /\ \A f \in {parsers[p].flags["f"]} :
                   flagObjs' = [flagObjs EXCEPT ![f].count = @ + 1]
              /\ UNCHANGED <<optionObjs, parsers>>
         ELSE IF a = "--bar=y"
         THEN /\ \A o \in {parsers[p].options["bar"]} :
                   optionObjs' = [optionObjs EXCEPT
                                    ![o].values = Append(@, "y")]
              /\ UNCHANGED <<flagObjs, parsers>>
         ELSE IF Len(stack') = Len(stack) + 1
         THEN /\ parsers' = [parsers EXCEPT ![p].command_name = a]
              /\ UNCHANGED <<flagObjs, optionObjs>>
         ELSE /\ parsers' = [parsers EXCEPT ![p].pos_args = Append(@, a)]
              /\ UNCHANGED <<flagObjs, optionObjs>>

C30_Check ==
    AtCountCheck
    => /\ pc' = "exit" <=> ~Satisfied(top.self)
       /\ pc' # "exit" => UNCHANGED <<flagObjs, optionObjs, parsers>>

C30_NoReset == [][C30_Entry /\ C30_Loop /\ C30_Check]_vars

\* flag "foo f" and option "bar b" on the root, which requires at least
\* one positional argument; parse(["-f", "x"]) and then
\* parse(["-f", "--bar=y"]) have returned: the flag was counted twice, and
\* the second call passed the check with the "x" of the first
C30_Witness ==
    /\ Returned
    /\ nparse = 2
    /\ input = <<"-f", "--bar=y">>
    /\ parsers[Root].argcount = [size |-> 1, mode |-> check_ge]
    /\ count(Root, "foo") = 2
    /\ values(Root, "bar") = <<"y">>
    /\ args(Root) = <<"x">>

====
